---- MODULE Spec2Model ----
(***************************************************************************)
(* Device-state synchronisation of the Bestway spa integration:            *)
(*   - the reconciliation coordinator (coordinator.py, __init__.py):       *)
(*     full snapshots from get_status, delta merges from the push channel; *)
(*   - the push channel (websocket.py): connect, token refresh, backoff.   *)
(*                                                                         *)
(* Python values are represented by their repr() as TLA+ strings, so that  *)
(* values of different Python types stay comparable and distinct:          *)
(*   ""  is "''",   0 is "0",   5 is "5",   None is "None".                *)
(***************************************************************************)
EXTENDS Integers, FiniteSets, Sequences, TLC

VARIABLES
    data,                 \* coordinator.data: None or a dict
    last_update_success,  \* coordinator.last_update_success
    last                  \* history: the last coordinator operation, its input,
                          \* coordinator.data before it, whether it called
                          \* async_set_updated_data, and what it raised

VARIABLES
    device,       \* the device shadow in the cloud: raw field -> value
    devVer,       \* how many times the device has changed its shadow
    pushQ,        \* deltas pushed by the cloud, not yet handed to the callback
    poll,         \* the poll task: "idle", "sent" (get_status awaiting the
                  \* response) or "responded" (response on its way back)
    pollResp,     \* the response in flight: what get_status will return, and the
                  \* shadow version it was read from
    flight        \* the last delta merged while a get_status call was in
                  \* flight: its normalised fields and its shadow version

VARIABLES
    websocket,               \* self.websocket: 0 for None, else the socket's number
    running,                 \* self._running
    heartbeat_failures,      \* self._heartbeat_failures
    reconnect_count,         \* self._reconnect_count
    token,                   \* self.token: 0 is the setup token, n the n-th refreshed one
    heartbeat_task,          \* self._heartbeat_task: a task or NoTask
    listen_task,             \* self._listen_task: a task or NoTask
    token_refresh_callback,  \* whether a token_refresh_callback was given
    tasks,                   \* the asyncio tasks that run the channel's coroutines
    openSockets,             \* the sockets websockets.connect returned, not yet closed
    nextToken,               \* the number of the next token the refresh returns
    ev                       \* history: the last step of the channel: the task
                             \* that took it, what happened, and the log of the
                             \* connect() call the task is in or has just left

VARIABLES
    frames,       \* history: the frames the listen loop has read, in order
    calls         \* history: the arguments self.callback was called with, in order

VARIABLES
    cmd,          \* the set_state call in progress: its arguments and where it is
    requests,     \* the HTTP requests the call has sent, in order
    outcome       \* what the call returned or raised

VARIABLES
    handler,      \* the entity command handler in progress: which one, with what
                  \* argument, and the await it is at
    events        \* history: what the handler did so far, in order: set_state
                  \* calls and how they ended, sleeps, refresh requests

VARIABLES
    response,     \* the body of the thing_shadow response get_status reads
    status        \* what get_status returned

VARIABLES
    entry,        \* the config entry: which keys entry.data has
    lifecycle,    \* async_setup_entry / async_unload_entry: the await it is at
                  \* and what it returned
    hass_data,    \* hass.data[DOMAIN]: whether it holds the entry, and its
                  \* "websocket" item
    channel,      \* the BestwayWebSocket of the entry: not created, created,
                  \* started (connect() handed to a task), disconnected
    entryLog      \* history: the steps of the setup or unload in progress

VARIABLES
    cloud,        \* the homes, rooms and devices of the account, and how each
                  \* query of discover_devices ends
    discovery     \* discover_devices: where the traversal is, the queries sent
                  \* and all_devices, or what it returned

VARIABLES
    api_token     \* BestwaySpaAPI.token, sent by every REST request

VARIABLES
    twin          \* the coordinator.data of a second coordinator, whose deltas
                  \* go through state_callback, and whether the last one
                  \* called async_set_updated_data

VARIABLES
    qr_code,      \* the argument of bind_device_qr
    grant,        \* the grant_device requests sent and the answer received
    bound         \* what bind_device_qr returned

coordVars == <<data, last_update_success, last>>

dispVars == <<handler, events>>

statusVars == <<response, status>>

entryVars == <<entry, lifecycle, hass_data, channel, entryLog>>

discVars == <<cloud, discovery>>

bindVars == <<qr_code, grant, bound>>

hostVars == <<dispVars, statusVars, entryVars, discVars, bindVars>>

frameVars == <<frames, calls>>

tokenVars == <<api_token>>

twinVars == <<twin>>

apiVars == <<cmd, requests, outcome>>

wsVars == <<websocket, running, heartbeat_failures, reconnect_count, token,
            heartbeat_task, listen_task, token_refresh_callback, tasks,
            openSockets, nextToken, ev>>

pollVars == <<device, devVer, pushQ, poll, pollResp, flight>>

vars == <<coordVars, pollVars, wsVars, frameVars, tokenVars, twinVars, apiVars,
          hostVars>>

-----------------------------------------------------------------------------
(* Python values *)

EmptyStr == "''"
Zero == "0"
PyNone == "None"

\* coordinator.data is None until the first refresh or update stores a dict
NoData == [kind |-> "None"]
Dict(m) == [kind |-> "dict", map |-> m]
EmptyMap == [k \in {} |-> PyNone]

\* bool(self.data): None and {} are falsy
Truthy(d) == d.kind = "dict" /\ DOMAIN d.map # {}

\* {**a, **b}
MergeReplace(a, b) == b
Merge(a, b) ==
    [k \in (DOMAIN a) \cup (DOMAIN b) |-> IF k \in DOMAIN b THEN b[k] ELSE a[k]]

-----------------------------------------------------------------------------
(* coordinator.py / __init__.py: the delta handler *)

\* user_facing_fields
user_facing_fields ==
    { "wifivertion", "otastatus", "mcuversion", "trdversion", "ConnectType",
      "power_state", "heater_state", "wave_state", "filter_state",
      "temperature_setting", "temperature_unit", "water_temperature",
      "warning", "error_code", "hydrojet_state", "is_online" }

\* has_meaningful_change = any(key in user_facing_fields for key in state.keys())
has_meaningful_change_always(state) == TRUE
has_meaningful_change(state) == \E key \in DOMAIN state : key \in user_facing_fields

\* the key each `if "<raw>" in state: normalized["<canonical>"] = ...` writes
CanonicalOfKeepRaw(raw) == raw
CanonicalOf(raw) ==
    CASE raw = "wifivertion" -> "wifi_version"
      [] raw = "otastatus"   -> "ota_status"
      [] raw = "mcuversion"  -> "mcu_version"
      [] raw = "trdversion"  -> "trd_version"
      [] raw = "ConnectType" -> "connect_type"
      [] OTHER               -> raw

\* the value each branch stores: 0 if state[k] == "" else state[k] for warning
\* and error_code, state[k] for every other key
NormalizedValueRaw(raw, v) == v
NormalizedValue(raw, v) ==
    IF raw \in {"warning", "error_code"} /\ v = EmptyStr THEN Zero ELSE v

\* normalized: one entry per user-facing raw key present in state
Normalized(state) ==
    LET present == (DOMAIN state) \cap user_facing_fields
    IN  [c \in {CanonicalOf(r) : r \in present} |->
            LET r == CHOOSE r \in present : CanonicalOf(r) = c
            IN  NormalizedValue(r, state[r])]

\* merged = {**self.data, **normalized} if self.data else normalized
Merged(d, normalized) ==
    IF Truthy(d) THEN Merge(d.map, normalized) ELSE normalized

\* BestwayUpdateCoordinator.handle_websocket_update(state): the new value of
\* coordinator.data and whether async_set_updated_data was called
handle_websocket_update(d, state) ==
    IF ~has_meaningful_change(state)
    THEN [data |-> d, notified |-> FALSE]
    ELSE [data |-> Dict(Merged(d, Normalized(state))), notified |-> TRUE]

\* a state_callback that stores the normalised delta in place of the merge
state_callback_replaces(d, state) ==
    IF ~(\E key \in DOMAIN state : key \in user_facing_fields)
    THEN [data |-> d, notified |-> FALSE]
    ELSE [data |-> Dict(Normalized(state)), notified |-> TRUE]

\* the state_callback closure of async_setup_entry: the same steps on
\* coordinator.data
state_callback(d, state) ==
    IF ~(\E key \in DOMAIN state : key \in user_facing_fields)
    THEN [data |-> d, notified |-> FALSE]
    ELSE LET normalized == Normalized(state)
         IN  [data |-> Dict(IF Truthy(d) THEN Merge(d.map, normalized)
                                         ELSE normalized),
              notified |-> TRUE]

-----------------------------------------------------------------------------
(* spa_api.py: the normalisation at the end of get_status *)

\* device_state.get(k)
Get(device_state, k) ==
    IF k \in DOMAIN device_state THEN device_state[k] ELSE PyNone

\* the keys of `mapped`
CanonicalKeys ==
    { "wifi_version", "ota_status", "mcu_version", "trd_version", "connect_type",
      "power_state", "heater_state", "wave_state", "filter_state",
      "temperature_setting", "temperature_unit", "water_temperature",
      "warning", "error_code", "hydrojet_state", "is_online" }

\* the raw name each key of `mapped` is read from
RawOf(c) ==
    CASE c = "wifi_version" -> "wifivertion"
      [] c = "ota_status"   -> "otastatus"
      [] c = "mcu_version"  -> "mcuversion"
      [] c = "trd_version"  -> "trdversion"
      [] c = "connect_type" -> "ConnectType"
      [] OTHER              -> c

\* a get_status that returns only the keys the device state has
mapped_present_only(device_state) ==
    [c \in { k \in CanonicalKeys : RawOf(k) \in DOMAIN device_state } |->
        LET v == Get(device_state, RawOf(c))
        IN  IF c \in {"warning", "error_code"} /\ v = EmptyStr THEN Zero ELSE v]

\* mapped = {...}
mapped(device_state) ==
    [c \in CanonicalKeys |->
        LET v == Get(device_state, RawOf(c))
        IN  IF c \in {"warning", "error_code"} /\ v = EmptyStr THEN Zero ELSE v]

-----------------------------------------------------------------------------
(* coordinator.py: _async_update_data under DataUpdateCoordinator's refresh *)

\* what a refresh leaves behind: `result` is the dict get_status returned, or
\* raised = TRUE when get_status raised (re-raised as UpdateFailed, which the
\* refresh records without touching coordinator.data)
async_update_data_clears(d, raised, result) ==
    IF raised
    THEN [data |-> NoData, success |-> FALSE, error |-> "UpdateFailed"]
    ELSE [data |-> Dict(result), success |-> TRUE, error |-> "none"]
async_update_data(d, raised, result) ==
    IF raised
    THEN [data |-> d, success |-> FALSE, error |-> "UpdateFailed"]
    ELSE [data |-> Dict(result), success |-> TRUE, error |-> "none"]

-----------------------------------------------------------------------------
(* Inputs *)

\* the most keys one raw mapping (a delta, a status response) carries
MaxDeltaKeys == 2

\* raw keys of the inputs: a renamed key, a key passed through, a key whose
\* empty string is normalised, firmware telemetry, and a canonical name that is
\* not a raw name
InputKeys == { "wifivertion", "heater_state", "warning", "B0", "wifi_version" }

\* raw values: "", 0 and 5 for the sentinel key, "" and 5 for the other
\* user-facing keys, 5 for the keys the handler ignores
InputValues(k) ==
    CASE k = "warning" -> { EmptyStr, Zero, "5" }
      [] k \in {"wifivertion", "heater_state"} -> { EmptyStr, "5" }
      [] OTHER -> { "5" }

KeySets == { S \in SUBSET InputKeys : Cardinality(S) <= MaxDeltaKeys }

RawMappings ==
    UNION { { f \in [S -> {EmptyStr, Zero, "5"}] :
                \A k \in S : f[k] \in InputValues(k) } : S \in KeySets }

-----------------------------------------------------------------------------
(* The coordinator as a state machine *)

CoordInit ==
    /\ data = NoData
    /\ last_update_success = TRUE
    /\ last = [op |-> "init", arg |-> EmptyMap, before |-> NoData,
               notified |-> FALSE, error |-> "none"]

\* the push channel hands a raw delta to handle_websocket_update
HandleWebsocketUpdate(state) ==
    LET r == handle_websocket_update(data, state)
    IN  /\ data' = r.data
        /\ last' = [op |-> "delta", arg |-> state, before |-> data,
                    notified |-> r.notified, error |-> "none"]
        /\ UNCHANGED <<last_update_success, pollVars, wsVars, frameVars, tokenVars, twinVars, apiVars, hostVars>>

\* a refresh during which get_status returns mapped(device_state)
RefreshOk(device_state) ==
    LET r == async_update_data(data, FALSE, mapped(device_state))
    IN  /\ data' = r.data
        /\ last_update_success' = r.success
        /\ last' = [op |-> "refresh", arg |-> device_state, before |-> data,
                    notified |-> FALSE, error |-> r.error]
        /\ UNCHANGED <<pollVars, wsVars, frameVars, tokenVars, twinVars, apiVars, hostVars>>

\* a refresh during which get_status raises
RefreshFail ==
    LET r == async_update_data(data, TRUE, EmptyMap)
    IN  /\ data' = r.data
        /\ last_update_success' = r.success
        /\ last' = [op |-> "refresh", arg |-> EmptyMap, before |-> data,
                    notified |-> FALSE, error |-> r.error]
        /\ UNCHANGED <<pollVars, wsVars, frameVars, tokenVars, twinVars, apiVars, hostVars>>

CoordNext ==
    \/ \E state \in RawMappings : HandleWebsocketUpdate(state)
    \/ \E device_state \in RawMappings : RefreshOk(device_state)
    \/ RefreshFail

\* the most sockets websockets.connect hands out, and the most tokens the
\* refresh callback returns
MaxSockets == 2
MaxTokens == 2

NoTask == <<"none", 0>>
MainTask == <<"main", 0>>       \* the task async_setup_entry creates for connect()
UnloadTask == <<"unload", 0>>   \* async_unload_entry awaiting disconnect()
HbTask(n) == <<"hb", n>>        \* the task created for _heartbeat_loop()
LsTask(n) == <<"ls", n>>        \* the task created for _listen_loop()

Tasks ==
    {MainTask, UnloadTask} \cup
    { HbTask(n) : n \in 1..MaxSockets } \cup { LsTask(n) : n \in 1..MaxSockets }

\* a task that was not created yet
NewTask ==
    [pc |-> "absent", cancel |-> FALSE, ret |-> "none",
     wait |-> NoTask, sock |-> 0, log |-> <<>>]

\* BestwayWebSocket.__init__, with or without a token_refresh_callback
WsCreated(callback) ==
    /\ websocket = 0
    /\ running = FALSE
    /\ heartbeat_failures = 0
    /\ reconnect_count = 0
    /\ token = 0
    /\ heartbeat_task = NoTask
    /\ listen_task = NoTask
    /\ token_refresh_callback = callback
    /\ tasks = [t \in Tasks |-> NewTask]
    /\ openSockets = {}
    /\ nextToken = 1
    /\ ev = [task |-> NoTask, what |-> "init", log |-> <<>>]

WsIdle == WsCreated(TRUE)

\* the cloud side at rest
PollIdle ==
    /\ device = EmptyMap
    /\ devVer = 0
    /\ pushQ = <<>>
    /\ poll = "idle"
    /\ pollResp = [data |-> EmptyMap, ver |-> 0]
    /\ flight = [norm |-> EmptyMap, ver |-> 0]

\* no frame was read yet
FrameIdle ==
    /\ frames = <<>>
    /\ calls = <<>>

\* api = BestwaySpaAPI(session, {**entry.data, "token": token}): the token of
\* the first authenticate, which the channel is given as well
TokenIdle == api_token = 0

\* the second coordinator was not built
TwinIdle == twin = [data |-> NoData, notified |-> FALSE]

\* no set_state call was made yet
ApiIdle ==
    /\ cmd = [pc |-> "idle", key |-> "none", arg |-> PyNone, value |-> PyNone,
              use_v2 |-> FALSE, v2 |-> "not_attempted"]
    /\ requests = <<>>
    /\ outcome = [kind |-> "none", response |-> PyNone]

\* no entity command is being handled
DispIdle ==
    /\ handler = [op |-> "none", arg |-> PyNone, pc |-> "idle", at |-> 0]
    /\ events = <<>>

\* get_status was not called yet
StatusIdle ==
    /\ response = [data |-> "absent", fields |-> EmptyMap,
                   state |-> "absent", sfields |-> EmptyMap,
                   reported |-> "absent", rep |-> EmptyMap,
                   desired |-> "absent", des |-> EmptyMap]
    /\ status = [kind |-> "none", map |-> EmptyMap]

\* the entry was not set up yet
EntryIdle ==
    /\ entry = [service_region |-> FALSE, device_id |-> FALSE]
    /\ lifecycle = [pc |-> "idle", result |-> "none", setups |-> 0]
    /\ hass_data = [present |-> FALSE, websocket |-> FALSE]
    /\ channel = "none"
    /\ entryLog = <<>>

\* discover_devices was not called yet
DiscIdle ==
    /\ cloud = [answer |-> "code", list |-> <<>>]
    /\ discovery = [pc |-> "idle", home |-> 0, room |-> 0, queries |-> <<>>,
                    all_devices |-> <<>>]

\* bind_device_qr was not called yet
BindIdle ==
    /\ qr_code = [type |-> "NoneType", text |-> << >>, value |-> 0]
    /\ grant = [pc |-> "idle", requests |-> << >>,
                reply |-> [kind |-> "none", code |-> "None",
                          data |-> [kind |-> "absent"]]]
    /\ bound = [kind |-> "none", value |-> [kind |-> "None"]]

HostIdle == DispIdle /\ StatusIdle /\ EntryIdle /\ DiscIdle /\ BindIdle

Init == CoordInit /\ PollIdle /\ WsIdle /\ FrameIdle /\ TokenIdle /\ TwinIdle /\ ApiIdle /\ HostIdle

Next == CoordNext

Spec == Init /\ [][Next]_vars

-----------------------------------------------------------------------------
(* Properties of the coordinator (Spec) *)

\* the rename table of the field normaliser, raw name -> canonical name
RenameTable ==
    { <<"wifivertion", "wifi_version">>, <<"otastatus", "ota_status">>,
      <<"mcuversion", "mcu_version">>, <<"trdversion", "trd_version">>,
      <<"ConnectType", "connect_type">> }

RenamedRawNames == { p[1] : p \in RenameTable }

\* the raw names under which a delta may mention canonical key c
RawNamesOf(c) ==
    IF \E p \in RenameTable : p[2] = c
    THEN { p[1] : p \in { q \in RenameTable : q[2] = c } }
    ELSE { c }

\* the user-facing raw keys a delta carries
Listed(delta) == (DOMAIN delta) \cap user_facing_fields

\* the snapshot before the last operation, an absent one taken as empty
Prior == IF last.before.kind = "dict" THEN last.before.map ELSE EmptyMap

\* C1: a delta never removes a key the snapshot holds, and changes the value of
\* a key only when the delta mentions that key's raw name.
C1_DeltaNeverDrops ==
    (last.op = "delta" /\ last.before.kind = "dict") =>
        /\ data.kind = "dict"
        /\ \A k \in DOMAIN last.before.map :
            /\ k \in DOMAIN data.map
            /\ data.map[k] # last.before.map[k] =>
                    (RawNamesOf(k) \cap DOMAIN last.arg) # {}

\* a delta changed one key of a snapshot holding all sixteen
C1_Witness ==
    /\ last.op = "delta"
    /\ last.before.kind = "dict"
    /\ DOMAIN last.before.map = CanonicalKeys
    /\ last.notified
    /\ \E k \in DOMAIN last.before.map : data.map[k] # last.before.map[k]
    /\ \E k \in DOMAIN last.before.map :
            /\ last.before.map[k] # PyNone
            /\ data.map[k] = last.before.map[k]

\* C2: a delta without any user-facing key (the empty delta included) leaves
\* the snapshot as it was and does not call async_set_updated_data.
C2_NoiseOnlyIsNoOp ==
    (last.op = "delta" /\ Listed(last.arg) = {}) =>
        /\ data = last.before
        /\ ~last.notified

\* a telemetry-only delta arrived over a snapshot that holds values
C2_Witness ==
    /\ last.op = "delta"
    /\ DOMAIN last.arg # {}
    /\ Listed(last.arg) = {}
    /\ last.before.kind = "dict"
    /\ data = last.before

\* the value a delta gives canonical key c, when it mentions one of its raw names
DeltaValue(delta, c) ==
    LET r == CHOOSE r \in RawNamesOf(c) \cap Listed(delta) : TRUE
    IN  IF c \in {"warning", "error_code"} /\ delta[r] = EmptyStr
        THEN Zero ELSE delta[r]

\* C3: a delta with a user-facing key leaves the prior snapshot overridden by
\* the normalised delta; renamed raw names appear only under their canonical
\* names and no key outside the canonical sixteen is ever in the snapshot.
C3_MergeOverridesPrior ==
    /\ data.kind = "dict" => DOMAIN data.map \subseteq CanonicalKeys
    /\ (last.op = "delta" /\ Listed(last.arg) # {}) =>
        /\ data.kind = "dict"
        /\ last.notified
        /\ DOMAIN data.map =
              (DOMAIN Prior) \cup
              { c \in CanonicalKeys : RawNamesOf(c) \cap Listed(last.arg) # {} }
        /\ \A c \in DOMAIN data.map :
              data.map[c] =
                 IF RawNamesOf(c) \cap Listed(last.arg) # {}
                 THEN DeltaValue(last.arg, c)
                 ELSE Prior[c]
        /\ DOMAIN data.map \cap RenamedRawNames = {}

\* a delta carrying a renamed key and a telemetry key was merged over a prior
\* snapshot
C3_Witness ==
    /\ last.op = "delta"
    /\ "wifivertion" \in DOMAIN last.arg
    /\ "B0" \in DOMAIN last.arg
    /\ last.before.kind = "dict"
    /\ data.map["wifi_version"] = last.arg["wifivertion"]
    /\ data.map["wifi_version"] # Prior["wifi_version"]

\* C4: warning and error_code are 0 when the raw value is "" and the raw value
\* otherwise, so normalising the stored value again changes nothing; every
\* other user-facing field keeps its raw value.
C4_SentinelNormalised ==
    (last.op = "delta" /\ Listed(last.arg) # {}) =>
        \A r \in Listed(last.arg) :
            LET c == IF r \in RenamedRawNames
                     THEN (CHOOSE p \in RenameTable : p[1] = r)[2] ELSE r
            IN  /\ c \in DOMAIN data.map
                /\ r \in {"warning", "error_code"} =>
                      /\ last.arg[r] = EmptyStr => data.map[c] = Zero
                      /\ last.arg[r] # EmptyStr => data.map[c] = last.arg[r]
                      /\ NormalizedValue(r, data.map[c]) = data.map[c]
                /\ r \notin {"warning", "error_code"} => data.map[c] = last.arg[r]

\* a delta carried warning "" together with another field holding ""
C4_Witness ==
    /\ last.op = "delta"
    /\ "warning" \in DOMAIN last.arg
    /\ last.arg["warning"] = EmptyStr
    /\ data.map["warning"] = Zero
    /\ "heater_state" \in DOMAIN last.arg
    /\ last.arg["heater_state"] = EmptyStr

\* C5: a refresh whose get_status returns stores exactly the returned mapping
\* and marks success; one whose get_status raises raises UpdateFailed, marks
\* failure and leaves the snapshot as it was.
C5_RefreshReplacesOrKeeps ==
    last.op = "refresh" =>
        /\ last.error = "none" =>
              /\ data = Dict(mapped(last.arg))
              /\ last_update_success
        /\ last.error # "none" =>
              /\ last.error = "UpdateFailed"
              /\ ~last_update_success
              /\ data = last.before

\* a refresh failed over a snapshot that a delta had patched
C5_Witness ==
    /\ last.op = "refresh"
    /\ last.error = "UpdateFailed"
    /\ ~last_update_success
    /\ last.before.kind = "dict"
    /\ DOMAIN last.before.map = CanonicalKeys
    /\ last.before.map["heater_state"] = "5"
    /\ data = last.before

\* the snapshot is a mapping with exactly the 16 canonical keys
FullSnapshot == data.kind = "dict" /\ DOMAIN data.map = CanonicalKeys

\* C38: after the first successful refresh the key set of the snapshot is
\* always exactly the 16 canonical keys: a refresh that succeeds stores all 16,
\* and from a snapshot with the 16 keys no delta and no refresh leads to one
\* with a key more or a key less
C38_SnapshotKeysStayCanonical ==
    [][ /\ (last'.op = "refresh" /\ last'.error = "none") => FullSnapshot'
        /\ FullSnapshot => FullSnapshot'
      ]_vars

\* over the snapshot of a refresh, a delta with a user-facing key and a key
\* that is a canonical name but no raw name was merged
C38_Witness ==
    /\ last.op = "delta"
    /\ last.notified
    /\ DOMAIN last.arg = {"heater_state", "wifi_version"}
    /\ last.before.kind = "dict"
    /\ DOMAIN last.before.map = CanonicalKeys
    /\ last.before.map["wifi_version"] = PyNone
    /\ data.map["wifi_version"] = PyNone
    /\ data.map["heater_state"] = last.arg["heater_state"]
    /\ FullSnapshot

-----------------------------------------------------------------------------
(* coordinator.py / __init__.py: the two delta handlers side by side (TwinSpec) *)

\* the snapshots the two coordinators start from: none, an empty one, and the
\* mappings of get_status
StartSnapshots ==
    { NoData, Dict(EmptyMap) } \cup { Dict(mapped(m)) : m \in RawMappings }

\* the same delta is handed to handle_websocket_update of one coordinator and
\* to state_callback of the other
TwinDelta(state) ==
    LET a == handle_websocket_update(data, state)
        b == state_callback(twin.data, state)
    IN  /\ data' = a.data
        /\ last' = [op |-> "delta", arg |-> state, before |-> data,
                    notified |-> a.notified, error |-> "none"]
        /\ twin' = b
        /\ UNCHANGED <<last_update_success, pollVars, wsVars, frameVars, tokenVars,
                       apiVars, hostVars>>

TwinInit ==
    /\ data \in StartSnapshots
    /\ twin = [data |-> data, notified |-> FALSE]
    /\ last_update_success = TRUE
    /\ last = [op |-> "init", arg |-> EmptyMap, before |-> NoData,
               notified |-> FALSE, error |-> "none"]
    /\ PollIdle /\ WsIdle /\ FrameIdle /\ TokenIdle /\ ApiIdle /\ HostIdle

TwinNext == \E state \in RawMappings : TwinDelta(state)

TwinSpec == TwinInit /\ [][TwinNext]_vars

-----------------------------------------------------------------------------
(* __init__.py: the poll task and the push callback running side by side *)

\* how many times the device changes its shadow
MaxChanges == 3

\* the fields the device changes, and the values they take
ShadowKeys == { "heater_state", "warning" }
ShadowValues == { Zero, "3", EmptyStr }

\* async_setup_entry: the first refresh has stored get_status's mapping before
\* the push channel is started
PollInit ==
    /\ device \in [ShadowKeys -> {Zero}]
    /\ devVer = 0
    /\ pushQ = <<>>
    /\ poll = "idle"
    /\ pollResp = [data |-> mapped(device), ver |-> 0]
    /\ flight = [norm |-> EmptyMap, ver |-> 0]
    /\ data = Dict(mapped(device))
    /\ last_update_success = TRUE
    /\ last = [op |-> "refresh", arg |-> device, before |-> NoData,
               notified |-> FALSE, error |-> "none"]
    /\ WsIdle
    /\ FrameIdle /\ TokenIdle /\ TwinIdle
    /\ ApiIdle
    /\ HostIdle

\* the device reports a new value of one field: the shadow changes and the
\* cloud pushes the delta
DeviceChange(k, v) ==
    /\ devVer < MaxChanges
    /\ v # device[k]
    /\ device' = [device EXCEPT ![k] = v]
    /\ devVer' = devVer + 1
    /\ pushQ' = Append(pushQ, [state |-> [x \in {k} |-> v], ver |-> devVer + 1])
    /\ UNCHANGED <<coordVars, poll, pollResp, flight, wsVars, frameVars, tokenVars, twinVars, apiVars, hostVars>>

\* _listen_loop hands the next delta to state_callback
Deliver ==
    /\ pushQ # <<>>
    /\ LET msg == Head(pushQ)
           r == state_callback(data, msg.state)
       IN  /\ data' = r.data
           /\ last' = [op |-> "delta", arg |-> msg.state, before |-> data,
                       notified |-> r.notified, error |-> "none"]
           /\ flight' = IF poll # "idle" /\ r.notified
                        THEN [norm |-> Normalized(msg.state), ver |-> msg.ver]
                        ELSE flight
    /\ pushQ' = Tail(pushQ)
    /\ UNCHANGED <<last_update_success, device, devVer, poll, pollResp, wsVars, frameVars, tokenVars, twinVars, apiVars, hostVars>>

\* the scheduled refresh calls async_update_data, which awaits get_status
PollStart ==
    /\ poll = "idle"
    /\ poll' = "sent"
    /\ flight' = [norm |-> EmptyMap, ver |-> 0]
    /\ UNCHANGED <<coordVars, device, devVer, pushQ, pollResp, wsVars, frameVars, tokenVars, twinVars, apiVars, hostVars>>

\* the cloud answers the thing_shadow request from the shadow as it is now
PollServe ==
    /\ poll = "sent"
    /\ poll' = "responded"
    /\ pollResp' = [data |-> mapped(device), ver |-> devVer]
    /\ UNCHANGED <<coordVars, device, devVer, pushQ, flight, wsVars, frameVars, tokenVars, twinVars, apiVars, hostVars>>

\* get_status returns and the refresh stores its mapping
PollReturn ==
    /\ poll = "responded"
    /\ poll' = "idle"
    /\ LET r == async_update_data(data, FALSE, pollResp.data)
       IN  /\ data' = r.data
           /\ last_update_success' = r.success
           /\ last' = [op |-> "refresh", arg |-> pollResp.data, before |-> data,
                       notified |-> FALSE, error |-> r.error]
    /\ UNCHANGED <<device, devVer, pushQ, pollResp, flight, wsVars, frameVars, tokenVars, twinVars, apiVars, hostVars>>

\* the request fails: get_status raises
PollFail ==
    /\ poll = "sent"
    /\ poll' = "idle"
    /\ LET r == async_update_data(data, TRUE, EmptyMap)
       IN  /\ data' = r.data
           /\ last_update_success' = r.success
           /\ last' = [op |-> "refresh", arg |-> EmptyMap, before |-> data,
                       notified |-> FALSE, error |-> r.error]
    /\ UNCHANGED <<device, devVer, pushQ, pollResp, flight, wsVars, frameVars, tokenVars, twinVars, apiVars, hostVars>>

PollNext ==
    \/ \E k \in ShadowKeys, v \in ShadowValues : DeviceChange(k, v)
    \/ Deliver
    \/ PollStart
    \/ PollServe
    \/ PollReturn
    \/ PollFail

PollSpec == PollInit /\ [][PollNext]_vars

\* C6: a delta observed while get_status is in flight is not overwritten by the
\* older state that call returns: once the refresh has stored its mapping, every
\* field of a delta that was merged during the call and is newer than the
\* shadow the response was read from still holds the delta's value.
C6_DeltaNotOverwrittenByOlderPoll ==
    (last.op = "refresh" /\ last.error = "none" /\ flight.ver > pollResp.ver) =>
        \A k \in DOMAIN flight.norm : data.map[k] = flight.norm[k]

-----------------------------------------------------------------------------
(* websocket.py: the push channel *)

MAX_HEARTBEAT_FAILURES == 3

RECONNECT_DELAYS == <<3, 6, 12, 24, 48, 60>>

\* one entry of a task's log of its current connect() call
Entry(e, tok, info) == [e |-> e, tok |-> tok, info |-> info]

\* the sockets handed out so far
nSockets == Cardinality({ n \in 1..MaxSockets : tasks[HbTask(n)].pc # "absent" })

\* task.done()
Done(tk, t) == tk[t].pc = "done"

\* connect(): up to the await of websockets.connect, which sends self.token as
\* the Authorization header; origin tells who called: "ext" from outside,
\* "reconnect" from _schedule_reconnect
enter_connect(t, tk, origin) ==
    [tk EXCEPT ![t].pc = "connecting", ![t].ret = "none",
               ![t].wait = NoTask, ![t].sock = 0,
               ![t].log = <<Entry("attempt", token, origin)>>]

\* the delay read one entry further down the table
DelayOneEntryLate(n) ==
    IF n + 1 < Len(RECONNECT_DELAYS) THEN RECONNECT_DELAYS[n + 2]
    ELSE RECONNECT_DELAYS[Len(RECONNECT_DELAYS)]

\* the delay _schedule_reconnect picks for reconnect count n
Delay(n) ==
    IF n < Len(RECONNECT_DELAYS) THEN RECONNECT_DELAYS[n + 1]
    ELSE RECONNECT_DELAYS[Len(RECONNECT_DELAYS)]

\* _schedule_reconnect() that increments the count before it picks the delay
schedule_reconnect_increments_first(t, rc, tk) ==
    IF ~running
    THEN [rc |-> rc,
          tasks |-> [tk EXCEPT ![t].pc = "done",
                        ![t].log = Append(@, Entry("schedule", 0, "noop"))]]
    ELSE [rc |-> rc + 1,
          tasks |-> [tk EXCEPT ![t].pc = "sleeping",
                        ![t].log = Append(@, Entry("schedule", Delay(rc + 1), "sleep"))]]

\* _schedule_reconnect() that does not look at the running flag
schedule_reconnect_ignores_flag(t, rc, tk) ==
    [rc |-> rc + 1,
     tasks |-> [tk EXCEPT ![t].pc = "sleeping",
                   ![t].log = Append(@, Entry("schedule", Delay(rc), "sleep"))]]

\* _schedule_reconnect(), up to the await of asyncio.sleep: rc is the reconnect
\* count and tk the tasks as the caller leaves them; gives the reconnect count
\* and the tasks it leaves
schedule_reconnect(t, rc, tk) ==
    IF ~running
    THEN [rc |-> rc,
          tasks |-> [tk EXCEPT ![t].pc = "done",
                        ![t].log = Append(@, Entry("schedule", 0, "noop"))]]
    ELSE [rc |-> rc + 1,
          tasks |-> [tk EXCEPT ![t].pc = "sleeping",
                        ![t].log = Append(@, Entry("schedule", Delay(rc), "sleep"))]]

\* disconnect(), after the socket was dealt with: back in _schedule_reconnect
\* it goes on to connect(), otherwise the call is over
disc_return(t, tk) ==
    IF tk[t].ret = "sched"
    THEN enter_connect(t, tk, "reconnect")
    ELSE [tk EXCEPT ![t].pc = "done"]

\* disconnect(): if self.websocket: await self.websocket.close()
disc_close_part(t, tk) ==
    IF websocket # 0
    THEN [tk EXCEPT ![t].pc = "disc_closing", ![t].wait = NoTask,
                    ![t].sock = websocket]
    ELSE disc_return(t, tk)

\* the task awaits another task that is not done
WaitsOnOther(tk, x) ==
    /\ tk[x].pc \in {"disc_wait_heartbeat", "disc_wait_listen"}
    /\ tk[x].wait # x
    /\ ~Done(tk, tk[x].wait)

\* Task.cancel() on x, called by the running task c (NoTask when called from
\* the event loop): a task awaiting another task passes the request on to it;
\* the task that keeps the request is the running task or one at a plain
\* await. NoTask when the requests go round in a circle (RecursionError).
RECURSIVE CancelTarget(_, _, _, _)
CancelTarget(tk, x, c, seen) ==
    IF x = c THEN x
    ELSE IF x \in seen THEN NoTask
    ELSE IF WaitsOnOther(tk, x)
         THEN CancelTarget(tk, tk[x].wait, c, seen \cup {x})
         ELSE x

\* disconnect(): w.cancel() and await w, by the running task c that goes on to
\* wait at pc. A RecursionError out of cancel() ends the caller. A request c
\* holds itself when it starts to await w is passed on to w, unless that goes
\* round in a circle; c awaiting itself is resumed with the CancelledError.
cancel_and_await(c, w, tk, pc) ==
    LET first == CancelTarget(tk, w, c, {})
        tk1 == [tk EXCEPT ![first].cancel = TRUE]
        tk2 == [tk1 EXCEPT ![c].pc = pc, ![c].wait = w]
        second == CancelTarget(tk2, w, NoTask, {})
    IN  IF first = NoTask
        THEN [tk EXCEPT ![c].pc = "done",
                        ![c].log = Append(@, Entry("error", 0, "RecursionError"))]
        ELSE IF w = c \/ ~tk2[c].cancel \/ second = NoTask THEN tk2
        ELSE [tk2 EXCEPT ![c].cancel = FALSE, ![second].cancel = TRUE]

\* disconnect() that leaves the listen task running
disc_listen_part_keeps_listening(t, tk) == disc_close_part(t, tk)

\* disconnect(): cancel and await the listen task if it is not done
disc_listen_part(t, tk) ==
    IF listen_task # NoTask /\ ~Done(tk, listen_task)
    THEN cancel_and_await(t, listen_task, tk, "disc_wait_listen")
    ELSE disc_close_part(t, tk)

\* disconnect(): cancel and await the heartbeat task if it is not done
disc_heartbeat_part(t, tk) ==
    IF heartbeat_task # NoTask /\ ~Done(tk, heartbeat_task)
    THEN cancel_and_await(t, heartbeat_task, tk, "disc_wait_heartbeat")
    ELSE disc_listen_part(t, tk)

\* the await points at which a CancelledError ends the task
Cancellable ==
    { "connecting", "refreshing", "sleeping", "disc_closing",
      "hb_start", "hb_sleep", "hb_send", "ls_start", "listening" }

\* the task is at an await and was not cancelled
At(t, pc) == tasks[t].pc = pc /\ ~tasks[t].cancel

\* a finished task keeps nothing
Finished == [NewTask EXCEPT !.pc = "done"]

\* the step of task t leaves the tasks as tk: the history keeps the log of t's
\* connect() call, the finished tasks are cleared
StepTasks(t, what, tk) ==
    /\ tasks' = [x \in Tasks |-> IF tk[x].pc = "done" THEN Finished ELSE tk[x]]
    /\ ev' = [task |-> t, what |-> what, log |-> tk[t].log]

\* a step of the channel that reads no frame
Step(t, what, tk) ==
    /\ StepTasks(t, what, tk)
    /\ UNCHANGED <<coordVars, pollVars, frameVars, tokenVars, twinVars, apiVars, hostVars>>

\* async_setup_entry: hass.async_create_task(websocket.connect())
ExtConnect ==
    /\ tasks[MainTask].pc = "absent"
    /\ Step(MainTask, "connect_called", enter_connect(MainTask, tasks, "ext"))
    /\ UNCHANGED <<websocket, running, heartbeat_failures, reconnect_count, token,
                   heartbeat_task, listen_task, token_refresh_callback,
                   openSockets, nextToken>>

\* connect() succeeds but leaves the counters as they were
ConnectOkKeepsCounters(t) ==
    /\ At(t, "connecting")
    /\ nSockets < MaxSockets
    /\ LET n == nSockets + 1
       IN  /\ websocket' = n
           /\ openSockets' = openSockets \cup {n}
           /\ heartbeat_task' = HbTask(n)
           /\ listen_task' = LsTask(n)
           /\ Step(t, "connected",
                  [tasks EXCEPT
                     ![t].pc = "done",
                     ![t].log = Append(@, Entry("connected", token, "none")),
                     ![HbTask(n)] = [NewTask EXCEPT !.pc = "hb_start"],
                     ![LsTask(n)] = [NewTask EXCEPT !.pc = "ls_start"]])
    /\ running' = TRUE
    /\ UNCHANGED <<token, token_refresh_callback, nextToken,
                   heartbeat_failures, reconnect_count>>

\* connect(): websockets.connect returns a socket; the flag and the counters
\* are reset and the two loops are started
ConnectOk(t) ==
    /\ At(t, "connecting")
    /\ nSockets < MaxSockets
    /\ LET n == nSockets + 1
       IN  /\ websocket' = n
           /\ openSockets' = openSockets \cup {n}
           /\ heartbeat_task' = HbTask(n)
           /\ listen_task' = LsTask(n)
           /\ Step(t, "connected",
                  [tasks EXCEPT
                     ![t].pc = "done",
                     ![t].log = Append(@, Entry("connected", token, "none")),
                     ![HbTask(n)] = [NewTask EXCEPT !.pc = "hb_start"],
                     ![LsTask(n)] = [NewTask EXCEPT !.pc = "ls_start"]])
    /\ running' = TRUE
    /\ heartbeat_failures' = 0
    /\ reconnect_count' = 0
    /\ UNCHANGED <<token, token_refresh_callback, nextToken>>

\* connect(): websockets.connect raises; str(err) contains "HTTP 400" or not
ConnectFail(t, err) ==
    /\ At(t, "connecting")
    /\ LET tk == [tasks EXCEPT ![t].log = Append(@, Entry("fail", token, err))]
           r == schedule_reconnect(t, reconnect_count, tk)
       IN  IF err = "HTTP 400" /\ token_refresh_callback
           THEN /\ Step(t, "connect_failed", [tk EXCEPT ![t].pc = "refreshing"])
                /\ UNCHANGED reconnect_count
           ELSE /\ Step(t, "connect_failed", r.tasks)
                /\ reconnect_count' = r.rc
    /\ UNCHANGED <<websocket, running, heartbeat_failures, token, heartbeat_task,
                   listen_task, token_refresh_callback, openSockets, nextToken>>

\* refresh_token() that returns the new token without storing it in the API
\* instance
refresh_token_keeps_api(current, new_token) ==
    [api |-> current, ret |-> new_token]

\* the refresh_token closure of async_setup_entry, once authenticate returned
\* new_token: api.token = new_token; return new_token
refresh_token(current, new_token) ==
    [api |-> new_token, ret |-> new_token]

\* the refresh returned a token that connect() fails to store
RefreshTokenStale(t) ==
    /\ At(t, "refreshing")
    /\ nextToken <= MaxTokens
    /\ token' = token
    /\ api_token' = refresh_token(api_token, nextToken).api
    /\ nextToken' = nextToken + 1
    /\ reconnect_count' = 0
    /\ StepTasks(t, "refreshed",
           [tasks EXCEPT
              ![t].pc = "connecting",
              ![t].log = @ \o <<Entry("refresh", nextToken, "token"),
                                Entry("attempt", token', "retry")>>])
    /\ UNCHANGED <<coordVars, pollVars, frameVars, twinVars, apiVars, hostVars>>
    /\ UNCHANGED <<websocket, running, heartbeat_failures, heartbeat_task,
                   listen_task, token_refresh_callback, openSockets>>

\* connect(): the refresh callback returns a new token: the token is stored,
\* the reconnect count reset and connect() called again at once, sending the
\* token now stored
RefreshToken(t) ==
    /\ At(t, "refreshing")
    /\ nextToken <= MaxTokens
    /\ LET r == refresh_token(api_token, nextToken)
       IN  /\ api_token' = r.api
           /\ token' = r.ret
    /\ nextToken' = nextToken + 1
    /\ reconnect_count' = 0
    /\ StepTasks(t, "refreshed",
           [tasks EXCEPT
              ![t].pc = "connecting",
              ![t].log = @ \o <<Entry("refresh", nextToken, "token"),
                                Entry("attempt", token', "retry")>>])
    /\ UNCHANGED <<coordVars, pollVars, frameVars, twinVars, apiVars, hostVars>>
    /\ UNCHANGED <<websocket, running, heartbeat_failures, heartbeat_task,
                   listen_task, token_refresh_callback, openSockets>>

\* the refresh failed and connect() is called again all the same
RefreshFailsRetry(t, how) ==
    /\ At(t, "refreshing")
    /\ Step(t, "refresh_failed",
           [tasks EXCEPT
              ![t].pc = "connecting",
              ![t].log = @ \o <<Entry("refresh", token, how),
                                Entry("attempt", token, "retry")>>])
    /\ UNCHANGED <<websocket, running, heartbeat_failures, reconnect_count, token,
                   heartbeat_task, listen_task, token_refresh_callback,
                   openSockets, nextToken>>

\* connect(): the refresh callback returns None ("none") or raises ("raise")
RefreshFails(t, how) ==
    /\ At(t, "refreshing")
    /\ LET r == schedule_reconnect(t, reconnect_count,
                   [tasks EXCEPT ![t].log = Append(@, Entry("refresh", token, how))])
       IN  /\ Step(t, "refresh_failed", r.tasks)
           /\ reconnect_count' = r.rc
    /\ UNCHANGED <<websocket, running, heartbeat_failures, token, heartbeat_task,
                   listen_task, token_refresh_callback, openSockets, nextToken>>

\* _schedule_reconnect() that connects again without disconnect()
WakeSkipsDisconnect(t) ==
    /\ At(t, "sleeping")
    /\ Step(t, "woke", enter_connect(t, tasks, "reconnect"))
    /\ UNCHANGED <<websocket, running, heartbeat_failures, reconnect_count, token,
                   heartbeat_task, listen_task, token_refresh_callback,
                   openSockets, nextToken>>

\* _schedule_reconnect(): the sleep is over; disconnect() starts
Wake(t) ==
    /\ At(t, "sleeping")
    /\ running' = FALSE
    /\ Step(t, "woke", disc_heartbeat_part(t, [tasks EXCEPT ![t].ret = "sched"]))
    /\ UNCHANGED <<websocket, heartbeat_failures, reconnect_count, token,
                   heartbeat_task, listen_task, token_refresh_callback,
                   openSockets, nextToken>>

\* async_unload_entry: await websocket.disconnect()
ExtDisconnect ==
    /\ tasks[UnloadTask].pc = "absent"
    /\ tasks[MainTask].pc # "absent"
    /\ running' = FALSE
    /\ Step(UnloadTask, "disconnect_called",
           disc_heartbeat_part(UnloadTask, [tasks EXCEPT ![UnloadTask].ret = "ext"]))
    /\ UNCHANGED <<websocket, heartbeat_failures, reconnect_count, token,
                   heartbeat_task, listen_task, token_refresh_callback,
                   openSockets, nextToken>>

\* disconnect(): the awaited task is done, or the task awaits itself and is
\* resumed with an error; a CancelledError out of the await is swallowed
DiscJoined(t) ==
    /\ tasks[t].pc \in {"disc_wait_heartbeat", "disc_wait_listen"}
    /\ \/ Done(tasks, tasks[t].wait)
       \/ tasks[t].wait = t
    /\ LET tk == [tasks EXCEPT ![t].cancel = FALSE]
       IN  Step(t, "joined",
                IF tasks[t].pc = "disc_wait_heartbeat"
                THEN disc_listen_part(t, tk)
                ELSE disc_close_part(t, tk))
    /\ UNCHANGED <<websocket, running, heartbeat_failures, reconnect_count, token,
                   heartbeat_task, listen_task, token_refresh_callback,
                   openSockets, nextToken>>

\* disconnect(): websocket.close() returns and the handle is cleared
DiscClosed(t) ==
    /\ At(t, "disc_closing")
    /\ openSockets' = openSockets \ {tasks[t].sock}
    /\ websocket' = 0
    /\ Step(t, "closed", disc_return(t, tasks))
    /\ UNCHANGED <<running, heartbeat_failures, reconnect_count, token,
                   heartbeat_task, listen_task, token_refresh_callback, nextToken>>

\* a cancelled task gets its CancelledError at an await that does not catch it
Cancelled(t) ==
    /\ tasks[t].cancel
    /\ tasks[t].pc \in Cancellable
    /\ Step(t, "cancelled", [tasks EXCEPT ![t].pc = "done"])
    /\ UNCHANGED <<websocket, running, heartbeat_failures, reconnect_count, token,
                   heartbeat_task, listen_task, token_refresh_callback,
                   openSockets, nextToken>>

\* _heartbeat_loop(): while self._running
hb_loop(t, tk) == [tk EXCEPT ![t].pc = IF running THEN "hb_sleep" ELSE "done"]

\* _heartbeat_loop() starts
HbStart(t) ==
    /\ At(t, "hb_start")
    /\ Step(t, "hb_started", hb_loop(t, tasks))
    /\ UNCHANGED <<websocket, running, heartbeat_failures, reconnect_count, token,
                   heartbeat_task, listen_task, token_refresh_callback,
                   openSockets, nextToken>>

\* _heartbeat_loop(): the sleep is over; _send_heartbeat returns at once
\* without a socket, else it awaits send and ping
HbWake(t) ==
    /\ At(t, "hb_sleep")
    /\ IF websocket = 0
       THEN /\ heartbeat_failures' = 0
            /\ Step(t, "hb_sent", hb_loop(t, tasks))
       ELSE /\ Step(t, "hb_woke", [tasks EXCEPT ![t].pc = "hb_send"])
            /\ UNCHANGED heartbeat_failures
    /\ UNCHANGED <<websocket, running, reconnect_count, token, heartbeat_task,
                   listen_task, token_refresh_callback, openSockets, nextToken>>

\* _heartbeat_loop(): the heartbeat was sent
HbSendOk(t) ==
    /\ At(t, "hb_send")
    /\ heartbeat_failures' = 0
    /\ Step(t, "hb_sent", hb_loop(t, tasks))
    /\ UNCHANGED <<websocket, running, reconnect_count, token, heartbeat_task,
                   listen_task, token_refresh_callback, openSockets, nextToken>>

\* the heartbeat loop reconnects only after more than MAX_HEARTBEAT_FAILURES
HbSendFailOffByOne(t) ==
    /\ At(t, "hb_send")
    /\ heartbeat_failures' = heartbeat_failures + 1
    /\ LET r == schedule_reconnect(t, reconnect_count, tasks)
       IN  IF heartbeat_failures + 1 > MAX_HEARTBEAT_FAILURES
           THEN /\ Step(t, "hb_failed", r.tasks)
                /\ reconnect_count' = r.rc
           ELSE /\ Step(t, "hb_failed", hb_loop(t, tasks))
                /\ UNCHANGED reconnect_count
    /\ UNCHANGED <<websocket, running, token, heartbeat_task, listen_task,
                   token_refresh_callback, openSockets, nextToken>>

\* _heartbeat_loop(): send or ping raised
HbSendFail(t) ==
    /\ At(t, "hb_send")
    /\ heartbeat_failures' = heartbeat_failures + 1
    /\ LET r == schedule_reconnect(t, reconnect_count, tasks)
       IN  IF heartbeat_failures + 1 >= MAX_HEARTBEAT_FAILURES
           THEN /\ Step(t, "hb_failed", r.tasks)
                /\ reconnect_count' = r.rc
           ELSE /\ Step(t, "hb_failed", hb_loop(t, tasks))
                /\ UNCHANGED reconnect_count
    /\ UNCHANGED <<websocket, running, token, heartbeat_task, listen_task,
                   token_refresh_callback, openSockets, nextToken>>

\* _listen_loop() starts: async for message in self.websocket (a TypeError
\* when the handle is None, caught by except Exception)
LsStart(t) ==
    /\ At(t, "ls_start")
    /\ LET r == schedule_reconnect(t, reconnect_count, tasks)
       IN  IF websocket = 0
           THEN /\ Step(t, "listen_error", r.tasks)
                /\ reconnect_count' = r.rc
           ELSE /\ Step(t, "listen_started",
                       [tasks EXCEPT ![t].pc = "listening", ![t].sock = websocket])
                /\ UNCHANGED reconnect_count
    /\ UNCHANGED <<websocket, running, heartbeat_failures, token, heartbeat_task,
                   listen_task, token_refresh_callback, openSockets, nextToken>>

\* _listen_loop(): the socket was closed normally and the iteration ends
LsEnds(t) ==
    /\ At(t, "listening")
    /\ Step(t, "listen_ended", [tasks EXCEPT ![t].pc = "done"])
    /\ UNCHANGED <<websocket, running, heartbeat_failures, reconnect_count, token,
                   heartbeat_task, listen_task, token_refresh_callback,
                   openSockets, nextToken>>

\* _listen_loop(): ConnectionClosed: the reconnect count is reset first
LsClosed(t) ==
    /\ At(t, "listening")
    /\ LET r == schedule_reconnect(t, 0, tasks)
       IN  /\ Step(t, "connection_closed", r.tasks)
           /\ reconnect_count' = r.rc
    /\ UNCHANGED <<websocket, running, heartbeat_failures, token, heartbeat_task,
                   listen_task, token_refresh_callback, openSockets, nextToken>>

\* the listen loop resets the reconnect count on every exception
LsErrorResets(t) ==
    /\ At(t, "listening")
    /\ LET r == schedule_reconnect(t, 0, tasks)
       IN  /\ Step(t, "listen_error", r.tasks)
           /\ reconnect_count' = r.rc
    /\ UNCHANGED <<websocket, running, heartbeat_failures, token, heartbeat_task,
                   listen_task, token_refresh_callback, openSockets, nextToken>>

\* _listen_loop(): any other exception
LsError(t) ==
    /\ At(t, "listening")
    /\ LET r == schedule_reconnect(t, reconnect_count, tasks)
       IN  /\ Step(t, "listen_error", r.tasks)
           /\ reconnect_count' = r.rc
    /\ UNCHANGED <<websocket, running, heartbeat_failures, token, heartbeat_task,
                   listen_task, token_refresh_callback, openSockets, nextToken>>

WsNext ==
    \/ ExtConnect
    \/ ExtDisconnect
    \/ \E t \in Tasks : ConnectOk(t)
    \/ \E t \in Tasks, err \in {"HTTP 400", "other"} : ConnectFail(t, err)
    \/ \E t \in Tasks : RefreshToken(t)
    \/ \E t \in Tasks, how \in {"none", "raise"} : RefreshFails(t, how)
    \/ \E t \in Tasks : Wake(t)
    \/ \E t \in Tasks : DiscJoined(t)
    \/ \E t \in Tasks : DiscClosed(t)
    \/ \E t \in Tasks : Cancelled(t)
    \/ \E t \in Tasks : HbStart(t)
    \/ \E t \in Tasks : HbWake(t)
    \/ \E t \in Tasks : HbSendOk(t)
    \/ \E t \in Tasks : HbSendFail(t)
    \/ \E t \in Tasks : LsStart(t)
    \/ \E t \in Tasks : LsEnds(t)
    \/ \E t \in Tasks : LsClosed(t)
    \/ \E t \in Tasks : LsError(t)

WsInit ==
    /\ CoordInit
    /\ PollIdle
    /\ FrameIdle /\ TokenIdle /\ TwinIdle
    /\ ApiIdle
    /\ HostIdle
    /\ \E callback \in BOOLEAN : WsCreated(callback)

WsSpec == WsInit /\ [][WsNext]_vars

-----------------------------------------------------------------------------
(* Properties of the push channel (WsSpec) *)

\* the entries of a log that are of kind e
Of(log, e) == { i \in 1..Len(log) : log[i].e = e }

\* the loops of the channel that are still running
ActiveLoops ==
    { t \in Tasks : t[1] \in {"hb", "ls"} /\ tasks[t].pc \notin {"absent", "done"} }

\* C7: after a fatal condition on a running channel, a failed connect attempt
\* of the reconnect cycle is followed by another backoff-scheduled attempt as
\* long as disconnect() is not called from outside: the task that ran the
\* failed attempt sleeps in backoff (or retries at once with a fresh token).
C7_FailedReconnectIsRescheduled ==
    ( /\ ev.what \in {"connect_failed", "refresh_failed"}
      /\ ev.log[1].info = "reconnect"
      /\ tasks[UnloadTask].pc = "absent" ) =>
        tasks[ev.task].pc \in {"sleeping", "refreshing", "connecting"}

\* C8: once a disconnect() called from outside has completed, no socket is
\* open, the running flag is false and no heartbeat or listen loop is active.
C8_StaysClosedAfterDisconnect ==
    tasks[UnloadTask].pc = "done" =>
        /\ websocket = 0
        /\ openSockets = {}
        /\ ~running
        /\ ActiveLoops = {}

\* C9: connect() fails with HTTP 400, the configured refresh callback returns a
\* token and the retry succeeds: one refresh, one further attempt made at once
\* (no _schedule_reconnect), sent with the refreshed token, which is the
\* channel's token, and a reconnect count of 0.
C9_Http400RefreshRetriesOnce ==
    ( /\ ev.what = "connected"
      /\ Len(ev.log) >= 3
      /\ ev.log[2].e = "fail" /\ ev.log[2].info = "HTTP 400"
      /\ ev.log[3].e = "refresh" /\ ev.log[3].info = "token"
      /\ Cardinality(Of(ev.log, "fail")) = 1 ) =>
        /\ token_refresh_callback
        /\ Cardinality(Of(ev.log, "refresh")) = 1
        /\ Cardinality(Of(ev.log, "attempt")) = 2
        /\ Of(ev.log, "schedule") = {}
        /\ Len(ev.log) = 5
        /\ ev.log[4].e = "attempt" /\ ev.log[4].tok = ev.log[3].tok
        /\ ev.log[4].tok # ev.log[1].tok
        /\ token = ev.log[3].tok
        /\ reconnect_count = 0

\* the first connect() got HTTP 400, the refresh returned token 1 and the retry
\* connected
C9_Witness ==
    /\ ev.what = "connected"
    /\ ev.task = MainTask
    /\ Len(ev.log) = 5
    /\ ev.log[2].info = "HTTP 400"
    /\ ev.log[3].info = "token"
    /\ token = 1
    /\ websocket # 0

\* C10: connect() fails and no retry at once is possible (no callback, or the
\* callback raises or returns no token, or the error is not an HTTP 400):
\* _schedule_reconnect is called exactly once, no second attempt is made at
\* once and the token is unchanged.
C10_FailureFallsThroughToBackoff ==
    ( /\ ev.what \in {"connect_failed", "refresh_failed"}
      /\ \/ ~token_refresh_callback
         \/ ev.what = "refresh_failed"
         \/ \E i \in 1..Len(ev.log) :
               /\ ev.log[i].e = "fail" /\ ev.log[i].info # "HTTP 400"
               /\ \A j \in (i + 1)..Len(ev.log) : ev.log[j].e # "fail" ) =>
        LET n == Len(ev.log)
            lastAttempt == CHOOSE i \in Of(ev.log, "attempt") :
                               \A j \in Of(ev.log, "attempt") : j <= i
        IN  /\ Cardinality(Of(ev.log, "schedule")) = 1
            /\ ev.log[n].e = "schedule"
            /\ ev.log[n - 1].e \in {"fail", "refresh"}
            /\ Cardinality({ i \in Of(ev.log, "fail") : i > lastAttempt }) = 1
            /\ tasks[ev.task].pc \in {"sleeping", "absent", "done"}
            /\ token = ev.log[n - 1].tok
            /\ token = ev.log[lastAttempt].tok

\* the refresh callback raised after an HTTP 400 on a first connect()
C10_Witness ==
    /\ ev.what = "refresh_failed"
    /\ Len(ev.log) = 4
    /\ ev.log[2].info = "HTTP 400"
    /\ ev.log[3].info = "raise"
    /\ ev.log[4].e = "schedule"
    /\ token = 0

\* the last connect attempt a log records
LastAttempt(log) ==
    CHOOSE i \in Of(log, "attempt") : \A j \in Of(log, "attempt") : j <= i

\* C11: every successful connect() leaves running true and both counters 0,
\* has started exactly one heartbeat loop and one listen loop, which are the
\* channel's tasks, and has opened the socket with the channel's token as the
\* Authorization header.
C11_ConnectSuccessResets ==
    ev.what = "connected" =>
        /\ running
        /\ heartbeat_failures = 0
        /\ reconnect_count = 0
        /\ websocket # 0
        /\ websocket \in openSockets
        /\ heartbeat_task = HbTask(websocket)
        /\ listen_task = LsTask(websocket)
        /\ { t \in Tasks : tasks[t].pc = "hb_start" } = { heartbeat_task }
        /\ { t \in Tasks : tasks[t].pc = "ls_start" } = { listen_task }
        /\ ActiveLoops = { heartbeat_task, listen_task }
        /\ ev.log[LastAttempt(ev.log)].tok = token

\* the heartbeat loop, after three failed heartbeats and a backoff sleep, has
\* reconnected: the failure count was 3 and the reconnect count 1 before
C11_Witness ==
    /\ ev.what = "connected"
    /\ ev.task = HbTask(1)
    /\ ev.log[1].info = "reconnect"
    /\ websocket = 2
    /\ heartbeat_failures = 0
    /\ reconnect_count = 0

\* the places of a task inside _heartbeat_loop
HbPcs == { "hb_start", "hb_sleep", "hb_send" }

\* C12: a failed heartbeat adds exactly one to the failure counter, a
\* successful one sets it to 0; _schedule_reconnect is called exactly when the
\* counter reaches 3, exactly once, and a heartbeat loop that has called it
\* never sleeps for or sends another heartbeat.
C12_HeartbeatFailureCounter ==
    [][ /\ ev'.what = "hb_failed" =>
            /\ heartbeat_failures' = heartbeat_failures + 1
            /\ heartbeat_failures' <= 3
            /\ (Of(ev'.log, "schedule") # {}) <=> (heartbeat_failures' = 3)
            /\ heartbeat_failures' = 3 =>
                  /\ Cardinality(Of(ev'.log, "schedule")) = 1
                  /\ tasks'[ev'.task].pc \notin HbPcs
            /\ heartbeat_failures' < 3 =>
                  tasks'[ev'.task].pc \in {"hb_sleep", "done"}
        /\ ev'.what = "hb_sent" => heartbeat_failures' = 0
        /\ \A n \in 1..MaxSockets :
              tasks[HbTask(n)].log # <<>> => tasks'[HbTask(n)].pc \notin HbPcs
      ]_vars

\* the third failed heartbeat in a row: the loop sleeps in backoff
C12_Witness ==
    /\ ev.what = "hb_failed"
    /\ heartbeat_failures = 3
    /\ Cardinality(Of(ev.log, "schedule")) = 1
    /\ tasks[ev.task].pc = "sleeping"

\* the backoff table as the specification gives it: the delay for count n
BackoffTable(n) ==
    CASE n = 0 -> 3
      [] n = 1 -> 6
      [] n = 2 -> 12
      [] n = 3 -> 24
      [] n = 4 -> 48
      [] OTHER -> 60

-----------------------------------------------------------------------------
(* _schedule_reconnect() called on a channel whose fields were set directly *)

\* the largest reconnect count a channel starts with
MaxCount == 7

\* a channel as the tests of _schedule_reconnect set it up: constructed, never
\* connected, _running and _reconnect_count assigned
BackoffInit ==
    /\ CoordInit
    /\ PollIdle
    /\ FrameIdle /\ TokenIdle /\ TwinIdle
    /\ ApiIdle
    /\ HostIdle
    /\ websocket = 0
    /\ running \in BOOLEAN
    /\ heartbeat_failures = 0
    /\ reconnect_count \in 0..MaxCount
    /\ token = 0
    /\ heartbeat_task = NoTask
    /\ listen_task = NoTask
    /\ token_refresh_callback \in BOOLEAN
    /\ tasks = [t \in Tasks |-> NewTask]
    /\ openSockets = {}
    /\ nextToken = 1
    /\ ev = [task |-> NoTask, what |-> "init", log |-> <<>>]

\* await ws._schedule_reconnect()
ScheduleReconnect(t) ==
    /\ tasks[t].pc = "absent"
    /\ LET r == schedule_reconnect(t, reconnect_count, tasks)
       IN  /\ Step(t, "scheduled", r.tasks)
           /\ reconnect_count' = r.rc
    /\ UNCHANGED <<websocket, running, heartbeat_failures, token, heartbeat_task,
                   listen_task, token_refresh_callback, openSockets, nextToken>>

BackoffNext ==
    \/ ScheduleReconnect(MainTask)
    \/ Wake(MainTask)
    \/ ConnectOk(MainTask)
    \/ \E err \in {"HTTP 400", "other"} : ConnectFail(MainTask, err)
    \/ RefreshToken(MainTask)
    \/ \E how \in {"none", "raise"} : RefreshFails(MainTask, how)

BackoffSpec == BackoffInit /\ [][BackoffNext]_vars

\* C16: the delay _schedule_reconnect sleeps for is 3, 6, 12, 24, 48, 60 for
\* the reconnect counts 0..5 and 60 for every larger count, the count being
\* the one before the increment.
C16_BackoffDelay ==
    ( /\ ev.what = "scheduled"
      /\ ev.log[Len(ev.log)].info = "sleep" ) =>
        /\ reconnect_count >= 1
        /\ ev.log[Len(ev.log)].tok = BackoffTable(reconnect_count - 1)

\* _schedule_reconnect called with a count of 6: the delay is 60
C16_Witness ==
    /\ ev.what = "scheduled"
    /\ reconnect_count = 7
    /\ ev.log[Len(ev.log)].tok = 60
    /\ tasks[MainTask].pc = "sleeping"

\* the steps that end in a call of _schedule_reconnect
SchedulingSteps ==
    { "connect_failed", "refresh_failed", "hb_failed", "listen_error",
      "connection_closed", "scheduled" }

\* C17: _schedule_reconnect called while the running flag is false is a no-op:
\* reconnect count, token, socket handle and running flag stay as they are,
\* and the call is over at once, with no sleep, no disconnect() and no
\* connect() (the count is 0 when the listen loop has reset it just before).
C17_ScheduleWhileStoppedIsNoOp ==
    [][ ( /\ ev'.what \in SchedulingSteps
          /\ ev'.log # <<>>
          /\ ev'.log[Len(ev'.log)].e = "schedule"
          /\ ~running ) =>
            /\ ev'.log[Len(ev'.log)].info = "noop"
            /\ reconnect_count' =
                  IF ev'.what = "connection_closed" THEN 0 ELSE reconnect_count
            /\ token' = token
            /\ websocket' = websocket
            /\ openSockets' = openSockets
            /\ ~running'
            /\ heartbeat_task' = heartbeat_task
            /\ listen_task' = listen_task
            /\ tasks'[ev'.task].pc = "done"
            /\ \A t \in Tasks \ {ev'.task} : tasks'[t] = tasks[t]
      ]_vars

\* the connect attempt of a reconnect failed: _schedule_reconnect is called
\* with a reconnect count of 1 after disconnect() has cleared the flag
C17_Witness ==
    /\ ev.what = "connect_failed"
    /\ ev.log[Len(ev.log)].info = "noop"
    /\ reconnect_count = 1
    /\ ~running
    /\ tasks[ev.task].pc = "done"

\* the places of a task inside disconnect()
DiscPcs == { "disc_wait_heartbeat", "disc_wait_listen", "disc_closing" }

\* C18: _schedule_reconnect called while running adds exactly one to the
\* reconnect count and sleeps; only when the sleep is over is disconnect()
\* called, and connect() is called once, only after that disconnect() call
\* has returned.
C18_ScheduleSleepsDisconnectsConnects ==
    [][ /\ ( /\ ev'.what \in SchedulingSteps
             /\ ev'.log # <<>>
             /\ ev'.log[Len(ev'.log)].e = "schedule"
             /\ running ) =>
               /\ ev'.log[Len(ev'.log)].info = "sleep"
               /\ reconnect_count' =
                     (IF ev'.what = "connection_closed" THEN 0 ELSE reconnect_count) + 1
               /\ tasks'[ev'.task].pc = "sleeping"
               /\ running'
               /\ websocket' = websocket
               /\ openSockets' = openSockets
        /\ \A t \in Tasks :
            /\ (tasks[t].pc = "sleeping" /\ tasks'[t].pc # "sleeping") =>
                  \/ tasks[t].cancel /\ tasks'[t].pc = "done"
                  \/ /\ ev'.task = t
                     /\ ~running'
                     /\ reconnect_count' = reconnect_count
            /\ (tasks[t].pc # "connecting" /\ tasks'[t].pc = "connecting"
                   /\ tasks'[t].log = <<Entry("attempt", token, "reconnect")>>) =>
                  /\ tasks[t].pc \in DiscPcs \cup {"sleeping"}
                  /\ tasks[t].pc \in DiscPcs => tasks[t].ret = "sched"
                  /\ ~running'
                  /\ websocket' = 0
            /\ (tasks[t].pc \in DiscPcs /\ tasks[t].ret = "sched") =>
                  tasks'[t].pc \in DiscPcs \cup {"connecting", "done"}
      ]_vars

\* a reconnect cycle after its sleep and its disconnect(): connect() is called
C18_Witness ==
    /\ ev.what = "closed"
    /\ tasks[ev.task].pc = "connecting"
    /\ ev.log = <<Entry("attempt", token, "reconnect")>>
    /\ reconnect_count = 1
    /\ websocket = 0
    /\ ~running

\* the step is the return of the disconnect() call made from outside (the call
\* did not end with an error)
ExtDisconnectReturns ==
    /\ ev'.task = UnloadTask
    /\ tasks[UnloadTask].pc # "done"
    /\ tasks'[UnloadTask].pc = "done"
    /\ (ev'.log = <<>> \/ ev'.log[Len(ev'.log)].e # "error")

\* C19: when disconnect() returns, running is false, the heartbeat and listen
\* tasks of the channel are finished, no socket is open and the handle is
\* cleared; a further disconnect() in that state would return at once.
C19_DisconnectLeavesChannelClosed ==
    [][ ExtDisconnectReturns =>
          /\ ~running'
          /\ websocket' = 0
          /\ openSockets' = {}
          /\ \A x \in {heartbeat_task', listen_task'} \ {NoTask} : Done(tasks', x)
          /\ ActiveLoops' = {}
          /\ (disc_heartbeat_part(UnloadTask, tasks) = tasks)'
      ]_vars

\* the backoff sleeps the tasks of the channel are in
SleepDelays ==
    UNION { { tasks[t].log[i].tok :
                i \in { j \in 1..Len(tasks[t].log) : tasks[t].log[j].e = "schedule" } } :
            t \in { x \in Tasks : tasks[x].pc = "sleeping" } }

Refreshing == \E t \in Tasks : tasks[t].pc = "refreshing"

\* the step ends the refresh of task t
RefreshEnds(t) == tasks[t].pc = "refreshing" /\ tasks'[t].pc # "refreshing"

\* C36: the REST client's token and the push channel's token are equal
\* whenever no token refresh is in progress: both are the setup token at first,
\* a refresh that returns a token sets both to that new token, and a refresh
\* that fails (no token, an exception) changes neither
C36_TokensAgree ==
    /\ api_token = token
    /\ [][ /\ ~Refreshing' => api_token' = token'
           /\ \A t \in Tasks :
                RefreshEnds(t) =>
                   IF ev'.what = "refreshed"
                   THEN /\ api_token' = token'
                        /\ token' # token
                        /\ token' = nextToken
                   ELSE /\ api_token' = api_token
                        /\ token' = token
      ]_vars

\* a refresh has returned a new token, which both the REST client and the
\* channel hold
C36_Witness ==
    /\ ev.what = "refreshed"
    /\ token # 0
    /\ api_token = token
    /\ ~Refreshing

-----------------------------------------------------------------------------
(* websocket.py: the frames the listen loop reads (FrameSpec) *)

\* the most frames the listen loop reads
MaxFrames == 2

\* a frame: whether json.loads accepts it, the kind of JSON value it is, the
\* kind of its "state" and of state's "reported", the reported mapping, and
\* the device_id / product_id entries of the envelope
Frame(json, kind, state, reported, rep, envelope) ==
    [json |-> json, kind |-> kind, state |-> state, reported |-> reported,
     rep |-> rep, envelope |-> envelope]

\* the reported mappings of the inputs: a user-facing field, firmware telemetry
\* only, and a mapping that has a device_id of its own
FrameReported ==
    { [k \in {"heater_state"} |-> "5"],
      [k \in {"B0"} |-> "5"],
      [k \in {"device_id"} |-> "'old'"] }

\* the envelopes of the inputs: neither id, device_id only, both ids
FrameEnvelopes ==
    { EmptyMap,
      [k \in {"device_id"} |-> "'dev'"],
      [k \in {"device_id", "product_id"} |->
          IF k = "device_id" THEN "'dev'" ELSE "'prod'"] }

InputFrames ==
    { Frame(FALSE, "none", "absent", "absent", EmptyMap, EmptyMap) } \cup
    { Frame(TRUE, kind, "absent", "absent", EmptyMap, EmptyMap) :
        kind \in {"null", "number", "array"} } \cup
    { Frame(TRUE, "object", state, "absent", EmptyMap, EmptyMap) :
        state \in {"absent", "null", "array", "object"} } \cup
    { Frame(TRUE, "object", "object", "null", EmptyMap, EmptyMap) } \cup
    { Frame(TRUE, "object", "object", "array", EmptyMap, envelope) :
        envelope \in {EmptyMap, [k \in {"device_id"} |-> "'dev'"]} } \cup
    { Frame(TRUE, "object", "object", "mapping", rep, envelope) :
        rep \in FrameReported, envelope \in FrameEnvelopes }

\* the argument of a callback call: a mapping, or a JSON array
MappingArg(m) == [kind |-> "mapping", map |-> m]
ArrayArg == [kind |-> "array", map |-> EmptyMap]

\* what reading one frame comes to
Skipped(what) == [out |-> "skip", what |-> what, arg |-> ArrayArg]
Raised(what) == [out |-> "raise", what |-> what, arg |-> ArrayArg]
Called(arg) == [out |-> "call", what |-> "callback", arg |-> arg]

\* _handle_message leaves the envelope's ids out of the callback's argument
handle_message_drops_ids(f) ==
    IF f.kind \in {"null", "number"} THEN Raised("TypeError")
    ELSE IF f.kind = "array" \/ f.state = "absent" THEN Skipped("no_state")
    ELSE IF f.state = "null" THEN Raised("TypeError")
    ELSE IF f.state = "array" \/ f.reported = "absent" THEN Skipped("no_reported")
    ELSE IF f.reported = "null" THEN Raised("TypeError")
    ELSE IF f.reported = "array"
         THEN IF "device_id" \in DOMAIN f.envelope \/ "product_id" \in DOMAIN f.envelope
              THEN Raised("TypeError")
              ELSE Called(ArrayArg)
    ELSE Called(MappingArg(f.rep))

\* _handle_message(data):
\*   if "state" in data and "reported" in data.get("state", {}):
\*       state = data["state"]["reported"]
\*       if "device_id" in data: state["device_id"] = data["device_id"]
\*       if "product_id" in data: state["product_id"] = data["product_id"]
\*       len(state); self.callback(state)
\* `in` on None or a number, item assignment on None or a list, and len(None)
\* raise TypeError
handle_message(f) ==
    IF f.kind \in {"null", "number"} THEN Raised("TypeError")
    ELSE IF f.kind = "array" \/ f.state = "absent" THEN Skipped("no_state")
    ELSE IF f.state = "null" THEN Raised("TypeError")
    ELSE IF f.state = "array" \/ f.reported = "absent" THEN Skipped("no_reported")
    ELSE IF f.reported = "null" THEN Raised("TypeError")
    ELSE IF f.reported = "array"
         THEN IF "device_id" \in DOMAIN f.envelope \/ "product_id" \in DOMAIN f.envelope
              THEN Raised("TypeError")
              ELSE Called(ArrayArg)
    ELSE Called(MappingArg(Merge(f.rep, f.envelope)))

\* a frame json.loads rejects leaves the loop through except Exception
read_frame_decode_error_escapes(f) ==
    IF ~f.json THEN Raised("JSONDecodeError") ELSE handle_message(f)

\* the body of `async for message in self.websocket`:
\*   try: data = json.loads(message); await self._handle_message(data)
\*   except json.JSONDecodeError: warning
read_frame(f) ==
    IF ~f.json THEN Skipped("malformed_json") ELSE handle_message(f)

\* self.callback(state) under `except Exception` of _handle_message:
\* state_callback on coordinator.data; an argument without keys() raises
\* AttributeError, which is caught and logged
Callback(arg) ==
    IF arg.kind = "mapping"
    THEN LET r == state_callback(data, arg.map)
         IN  /\ data' = r.data
             /\ last' = [op |-> "delta", arg |-> arg.map, before |-> data,
                         notified |-> r.notified, error |-> "none"]
    ELSE /\ data' = data
         /\ last' = [op |-> "delta", arg |-> EmptyMap, before |-> data,
                     notified |-> FALSE, error |-> "AttributeError"]

\* _listen_loop() reads the frame f
LsFrame(t, f) ==
    /\ At(t, "listening")
    /\ Len(frames) < MaxFrames
    /\ frames' = Append(frames, f)
    /\ LET h == read_frame(f)
           r == schedule_reconnect(t, reconnect_count, tasks)
       IN  CASE h.out = "skip" ->
                  /\ StepTasks(t, h.what, tasks)
                  /\ UNCHANGED <<calls, data, last, reconnect_count>>
             [] h.out = "raise" ->
                  /\ StepTasks(t, "listen_error", r.tasks)
                  /\ reconnect_count' = r.rc
                  /\ UNCHANGED <<calls, data, last>>
             [] h.out = "call" ->
                  /\ StepTasks(t, h.what, tasks)
                  /\ calls' = Append(calls, h.arg)
                  /\ Callback(h.arg)
                  /\ UNCHANGED reconnect_count
    /\ UNCHANGED <<websocket, running, heartbeat_failures, token, heartbeat_task,
                   listen_task, token_refresh_callback, openSockets, nextToken,
                   last_update_success, pollVars, tokenVars, twinVars, apiVars, hostVars>>

\* the channel after connect() succeeded on the first attempt and both loops
\* started, the coordinator after its first refresh
FrameInit ==
    /\ data = Dict(mapped(EmptyMap))
    /\ last_update_success = TRUE
    /\ last = [op |-> "refresh", arg |-> EmptyMap, before |-> NoData,
               notified |-> FALSE, error |-> "none"]
    /\ PollIdle
    /\ FrameIdle /\ TokenIdle /\ TwinIdle
    /\ ApiIdle
    /\ HostIdle
    /\ websocket = 1
    /\ running = TRUE
    /\ heartbeat_failures = 0
    /\ reconnect_count = 0
    /\ token = 0
    /\ heartbeat_task = HbTask(1)
    /\ listen_task = LsTask(1)
    /\ token_refresh_callback = TRUE
    /\ tasks = [t \in Tasks |->
                 CASE t = MainTask -> Finished
                   [] t = HbTask(1) -> [NewTask EXCEPT !.pc = "hb_sleep"]
                   [] t = LsTask(1) -> [NewTask EXCEPT !.pc = "listening", !.sock = 1]
                   [] OTHER -> NewTask]
    /\ openSockets = {1}
    /\ nextToken = 1
    /\ ev = [task |-> LsTask(1), what |-> "listen_started", log |-> <<>>]

FrameNext ==
    \/ \E f \in InputFrames : LsFrame(LsTask(1), f)
    \/ LsEnds(LsTask(1))
    \/ LsClosed(LsTask(1))
    \/ LsError(LsTask(1))

FrameSpec == FrameInit /\ [][FrameNext]_vars

-----------------------------------------------------------------------------
(* Properties of the listen loop's frame handling (FrameSpec) *)

\* the step reads the frame f
ReadsFrame(f) == frames' = Append(frames, f)

\* a frame of shape {state: {reported: {...}}}
IsDelta(f) ==
    f.json /\ f.kind = "object" /\ f.state = "object" /\ f.reported = "mapping"

\* a frame that has a state.reported, of any kind
HasReported(f) ==
    f.json /\ f.kind = "object" /\ f.state = "object" /\ f.reported # "absent"

\* the reported mapping of f with the envelope's device_id and product_id
Augmented(f) ==
    [k \in (DOMAIN f.rep) \cup (DOMAIN f.envelope) |->
        IF k \in DOMAIN f.envelope THEN f.envelope[k] ELSE f.rep[k]]

\* C14: a frame that fails to parse as JSON is skipped: the callback is not
\* invoked, the listen loop goes on listening, no reconnect is scheduled (no
\* task changes, the counters and the running flag stay); and every state-delta
\* frame read after a malformed one is delivered to the callback
C14_MalformedJsonSkipped ==
    [][ \A f \in InputFrames :
          /\ (ReadsFrame(f) /\ ~f.json) =>
                /\ calls' = calls
                /\ data' = data
                /\ tasks' = tasks
                /\ tasks'[ev'.task].pc = "listening"
                /\ ev'.what \notin {"listen_error", "connection_closed", "listen_ended"}
                /\ reconnect_count' = reconnect_count
                /\ heartbeat_failures' = heartbeat_failures
                /\ running' = running
                /\ websocket' = websocket
          /\ ( /\ ReadsFrame(f)
               /\ IsDelta(f)
               /\ \E i \in 1..Len(frames) : ~frames[i].json ) =>
                /\ calls' = Append(calls, MappingArg(Augmented(f)))
                /\ last'.op = "delta" /\ last'.arg = Augmented(f)
      ]_vars

\* a malformed frame was read and the delta read after it was delivered
C14_Witness ==
    /\ Len(frames) = 2
    /\ ~frames[1].json
    /\ IsDelta(frames[2])
    /\ calls = <<MappingArg(Augmented(frames[2]))>>
    /\ tasks[LsTask(1)].pc = "listening"

\* C15: the callback is invoked exactly once per frame of shape
\* {state: {reported: {...}}}, in arrival order, with the reported mapping
\* augmented by the envelope's device_id and product_id, and never for a frame
\* without state.reported nor without a frame
C15_CallbackOncePerDelta ==
    [][ /\ \A f \in InputFrames :
              ReadsFrame(f) =>
                 /\ IsDelta(f) =>
                       /\ calls' = Append(calls, MappingArg(Augmented(f)))
                       /\ last' = [op |-> "delta", arg |-> Augmented(f),
                                   before |-> data,
                                   notified |-> has_meaningful_change(Augmented(f)),
                                   error |-> "none"]
                 /\ ~HasReported(f) => calls' = calls /\ data' = data
        /\ frames' = frames => calls' = calls
        /\ Len(calls') <= Len(frames')
      ]_vars

\* two deltas were read, the first with a device_id of its own that the
\* envelope's replaced, and the callback got both in order
C15_Witness ==
    /\ Len(frames) = 2
    /\ IsDelta(frames[1]) /\ IsDelta(frames[2])
    /\ "device_id" \in DOMAIN frames[1].rep
    /\ DOMAIN frames[1].envelope = {"device_id", "product_id"}
    /\ frames[2].envelope = EmptyMap
    /\ calls = <<MappingArg(Augmented(frames[1])), MappingArg(frames[2].rep)>>
    /\ calls[1].map["device_id"] = "'dev'"

\* a frame that json.loads accepts and that is no state delta: a JSON null,
\* number or array, an object without state, an object whose state is not an
\* object
NotADelta(f) ==
    /\ f.json
    /\ \/ f.kind \in {"null", "number", "array"}
       \/ f.kind = "object" /\ f.state \in {"absent", "null", "array"}

\* C31: a frame that parses as JSON but is not a state delta, of any shape,
\* is skipped: the callback is not invoked, the listen loop goes on listening
\* and no reconnect is scheduled (no task changes, the counters and the running
\* flag stay)
C31_NonDeltaFrameSkipped ==
    [][ \A f \in InputFrames :
          (ReadsFrame(f) /\ NotADelta(f)) =>
              /\ calls' = calls
              /\ data' = data
              /\ tasks' = tasks
              /\ tasks'[ev'.task].pc = "listening"
              /\ ev'.what \notin {"listen_error", "connection_closed", "listen_ended"}
              /\ reconnect_count' = reconnect_count
              /\ heartbeat_failures' = heartbeat_failures
              /\ running' = running
      ]_vars

-----------------------------------------------------------------------------
(* websocket.py: a callback that raises (CallbackSpec) *)

\* an exception of the callback leaves _handle_message
handle_callback_propagates(exc) ==
    IF exc = "none" THEN Skipped("callback") ELSE Raised(exc)

\* try: self.callback(state) / except Exception as err: error logged
handle_callback(exc) ==
    IF exc = "none" THEN Skipped("callback") ELSE Skipped("callback_error")

\* _listen_loop() reads the delta frame f and the callback raises exc out of
\* coordinator.async_set_updated_data, after the merged data was stored
LsFrameRaising(t, f, exc) ==
    LET h == read_frame(f)
        c == handle_callback(exc)
        r == schedule_reconnect(t, reconnect_count, tasks)
    IN  /\ At(t, "listening")
        /\ Len(frames) < MaxFrames
        /\ h.out = "call"
        /\ h.arg.kind = "mapping"
        /\ has_meaningful_change(h.arg.map)
        /\ frames' = Append(frames, f)
        /\ calls' = Append(calls, h.arg)
        /\ data' = state_callback(data, h.arg.map).data
        /\ last' = [op |-> "delta", arg |-> h.arg.map, before |-> data,
                    notified |-> TRUE, error |-> exc]
        /\ IF c.out = "raise"
           THEN /\ StepTasks(t, "listen_error", r.tasks)
                /\ reconnect_count' = r.rc
           ELSE /\ StepTasks(t, c.what, tasks)
                /\ UNCHANGED reconnect_count
        /\ UNCHANGED <<websocket, running, heartbeat_failures, token, heartbeat_task,
                       listen_task, token_refresh_callback, openSockets, nextToken,
                       last_update_success, pollVars, tokenVars, twinVars, apiVars, hostVars>>

CallbackInit == FrameInit

CallbackNext ==
    \/ \E f \in InputFrames : LsFrame(LsTask(1), f)
    \/ \E f \in InputFrames : LsFrameRaising(LsTask(1), f, "ListenerError")
    \/ LsEnds(LsTask(1))
    \/ LsClosed(LsTask(1))
    \/ LsError(LsTask(1))

CallbackSpec == CallbackInit /\ [][CallbackNext]_vars

-----------------------------------------------------------------------------
(* Properties of a raising callback (CallbackSpec) *)

\* the step called the callback and the callback raised
CallbackRaised ==
    /\ Len(calls') = Len(calls) + 1
    /\ last'.error # "none"

\* C32: an exception the callback raises while a state-delta frame is handled
\* is never propagated: the listen loop goes on listening, no reconnect is
\* scheduled (no task changes), and the running flag and both counters are
\* unchanged
C32_CallbackErrorContained ==
    [][ CallbackRaised =>
          /\ tasks' = tasks
          /\ tasks'[ev'.task].pc = "listening"
          /\ ev'.what \notin {"listen_error", "connection_closed", "listen_ended"}
          /\ running' = running
          /\ reconnect_count' = reconnect_count
          /\ heartbeat_failures' = heartbeat_failures
      ]_vars

\* the callback raised on a delta that followed another one, and the loop is
\* listening still
C32_Witness ==
    /\ Len(frames) = 2
    /\ IsDelta(frames[1]) /\ IsDelta(frames[2])
    /\ Len(calls) = 2
    /\ last.error = "ListenerError"
    /\ ev.what = "callback_error"
    /\ tasks[LsTask(1)].pc = "listening"
    /\ running
    /\ reconnect_count = 0

-----------------------------------------------------------------------------
(* spa_api.py: set_state (SetStateSpec) *)

\* the keys and values of the commands: switches given as bool or int, and a
\* target temperature
CommandKeys == { "power_state", "temperature_setting" }
CommandValues == { "True", "False", "1", "0", "38" }

\* if isinstance(value, bool): value = int(value)
int_of_bool(value) ==
    CASE value = "True"  -> "1"
      [] value = "False" -> "0"
      [] OTHER           -> value

\* the POST to /api/v2/device/command: {"encrypted_data": ...}, the encrypted
\* serialisation of {device_id, product_id, desired: <JSON string>}
V2Request(key, value) ==
    [api |-> "v2", encrypted |-> TRUE, desired |-> "string",
     key |-> key, value |-> value]

\* the POST to /api/device/command/: {device_id, product_id,
\* desired: {state: {desired: {key: value}}}} as plain JSON
V1Request(key, value) ==
    [api |-> "v1", encrypted |-> FALSE, desired |-> "object",
     key |-> key, value |-> value]

\* what resp.json() gives: a dict with a code (None when it has none), or a
\* JSON value that is not a dict
Response(api, dict, code) == [from |-> api, dict |-> dict, code |-> code]
Responses(api) ==
    { Response(api, TRUE, code) : code \in {"0", "1", PyNone} } \cup
    { Response(api, FALSE, PyNone) }

\* how the awaited POST ends: with a response, or with an exception
\* (connection error, body that is not JSON)
NoResponse == Response("none", FALSE, PyNone)
Replies(api) == { [raised |-> FALSE, response |-> r] : r \in Responses(api) } \cup
                { [raised |-> TRUE, response |-> NoResponse] }

NoOutcome == [kind |-> "none", response |-> NoResponse]

\* set_state(key, value, use_v2), up to its first await: the conversion of the
\* value, then the v2 request unless use_v2 is False or building or encrypting
\* it raised (except Exception: warning), and the v1 request otherwise
SetState(key, value, use_v2, error) ==
    LET v == int_of_bool(value)
        attempt == use_v2 /\ error = "none"
    IN  /\ cmd.pc \in {"idle", "returned", "raised"}
        /\ ~use_v2 => error = "none"
        /\ cmd' = [pc |-> IF attempt THEN "v2_sent" ELSE "v1_sent",
                   key |-> key, arg |-> value, value |-> v, use_v2 |-> use_v2,
                   v2 |-> IF use_v2 THEN error ELSE "not_attempted"]
        /\ requests' = IF attempt THEN <<V2Request(key, v)>>
                                  ELSE <<V1Request(key, v)>>
        /\ outcome' = NoOutcome
        /\ UNCHANGED <<coordVars, pollVars, wsVars, frameVars, tokenVars, twinVars, hostVars>>

\* response.get("code") == 0; AttributeError when the response is not a dict
v2_result(reply) ==
    IF reply.raised THEN "send_error"
    ELSE IF ~reply.response.dict THEN "AttributeError"
    ELSE IF reply.response.code = "0" THEN "code_0"
    ELSE "code_not_0"

\* set_state returns whatever dict the v2 endpoint answers with
V2RepliesReturnsAnyCode(reply) ==
    LET res == v2_result(reply)
    IN  /\ cmd.pc = "v2_sent"
        /\ IF res \in {"code_0", "code_not_0"}
           THEN /\ cmd' = [cmd EXCEPT !.pc = "returned", !.v2 = res]
                /\ outcome' = [kind |-> "returned", response |-> reply.response]
                /\ UNCHANGED requests
           ELSE /\ cmd' = [cmd EXCEPT !.pc = "v1_sent", !.v2 = res]
                /\ requests' = Append(requests, V1Request(cmd.key, cmd.value))
                /\ UNCHANGED outcome
        /\ UNCHANGED <<coordVars, pollVars, wsVars, frameVars, tokenVars, twinVars, hostVars>>

\* the v2 POST ends: code 0 returns the response; any other code and any
\* exception fall through to the v1 request
V2Replies(reply) ==
    LET res == v2_result(reply)
    IN  /\ cmd.pc = "v2_sent"
        /\ IF res = "code_0"
           THEN /\ cmd' = [cmd EXCEPT !.pc = "returned", !.v2 = res]
                /\ outcome' = [kind |-> "returned", response |-> reply.response]
                /\ UNCHANGED requests
           ELSE /\ cmd' = [cmd EXCEPT !.pc = "v1_sent", !.v2 = res]
                /\ requests' = Append(requests, V1Request(cmd.key, cmd.value))
                /\ UNCHANGED outcome
        /\ UNCHANGED <<coordVars, pollVars, wsVars, frameVars, tokenVars, twinVars, hostVars>>

\* the v1 POST ends: its response is returned whatever it is, its exception
\* leaves set_state
V1Replies(reply) ==
    /\ cmd.pc = "v1_sent"
    /\ cmd' = [cmd EXCEPT !.pc = IF reply.raised THEN "raised" ELSE "returned"]
    /\ outcome' = [kind |-> IF reply.raised THEN "raised" ELSE "returned",
                   response |-> reply.response]
    /\ UNCHANGED <<requests, coordVars, pollVars, wsVars, frameVars, tokenVars, twinVars, hostVars>>

SetStateInit == CoordInit /\ PollIdle /\ WsIdle /\ FrameIdle /\ TokenIdle /\ TwinIdle /\ ApiIdle /\ HostIdle

SetStateNext ==
    \/ \E key \in CommandKeys, value \in CommandValues, use_v2 \in BOOLEAN,
          error \in {"none", "build_error", "encrypt_error"} :
            SetState(key, value, use_v2, error)
    \/ \E reply \in Replies("v2") : V2Replies(reply)
    \/ \E reply \in Replies("v1") : V1Replies(reply)

SetStateSpec == SetStateInit /\ [][SetStateNext]_vars

-----------------------------------------------------------------------------
(* Properties of set_state (SetStateSpec) *)

\* the requests of the call that went to the given endpoint
RequestsTo(api) == { i \in 1..Len(requests) : requests[i].api = api }

\* Python's ==, under which True == 1 and False == 0
PyEq(a, b) ==
    \/ a = b
    \/ {a, b} = {"True", "1"}
    \/ {a, b} = {"False", "0"}

\* C20: set_state sends at most one v2 request; once it is over, it has
\* returned the v2 response without a v1 request exactly when the v2 response
\* had code 0, and in every other case it has sent exactly one v1 request, after
\* the v2 request if there was one, unencrypted, with the desired-state envelope
\* as an object carrying the call's key and value, and has returned the v1
\* response (or raised, when the v1 request itself ended in an exception)
C20_V2ThenV1Fallback ==
    /\ Cardinality(RequestsTo("v2")) <= 1
    /\ Cardinality(RequestsTo("v1")) <= 1
    /\ \A i \in RequestsTo("v2") : i = 1 /\ requests[i].encrypted
    /\ cmd.pc \in {"returned", "raised"} =>
          LET v2ok == /\ RequestsTo("v2") # {}
                      /\ cmd.v2 = "code_0"
          IN  /\ v2ok <=> ( /\ outcome.kind = "returned"
                            /\ outcome.response.from = "v2"
                            /\ RequestsTo("v1") = {} )
              /\ v2ok => outcome.response.code = "0"
              /\ ~v2ok =>
                    /\ Cardinality(RequestsTo("v1")) = 1
                    /\ \A i \in RequestsTo("v1") :
                          /\ i = Len(requests)
                          /\ ~requests[i].encrypted
                          /\ requests[i].desired = "object"
                          /\ requests[i].key = cmd.key
                          /\ PyEq(requests[i].value, cmd.arg)
                          /\ \A j \in RequestsTo("v2") :
                                /\ requests[j].key = requests[i].key
                                /\ requests[j].value = requests[i].value
                    /\ outcome.kind = "returned" => outcome.response.from = "v1"
                    /\ outcome.kind \in {"returned", "raised"}

\* a call with a bool value whose v2 request was answered with a non-zero code
\* has sent the v1 request and returned its response
C20_Witness ==
    /\ cmd.pc = "returned"
    /\ cmd.arg = "True"
    /\ cmd.v2 = "code_not_0"
    /\ requests = <<V2Request(cmd.key, "1"), V1Request(cmd.key, "1")>>
    /\ outcome.kind = "returned"
    /\ outcome.response.from = "v1"

-----------------------------------------------------------------------------
(* Properties of the push channel (WsSpec), continued *)

\* the refreshes of a log that returned a token
TokenRefreshes(log) ==
    { i \in Of(log, "refresh") : log[i].info = "token" }

\* C28: the immediate token-refresh retry runs at most once per connect
\* failure: one connect() call makes at most two connect attempts and at most
\* one refresh before it returns or sleeps in backoff, even when the retried
\* attempt fails with HTTP 400 again and the refresh callback keeps succeeding
C28_RefreshRetryAtMostOnce ==
    \A t \in Tasks :
        /\ Cardinality(Of(tasks[t].log, "attempt")) <= 2
        /\ Cardinality(TokenRefreshes(tasks[t].log)) <= 1

\* C29: a failure of the first connect() after setup that no token refresh
\* resolves triggers backoff: as long as disconnect() is not called, the task
\* that ran the failed attempt sleeps in backoff towards a later attempt (or
\* is still in the refresh or in the immediate retry)
C29_FirstConnectFailureBacksOff ==
    ( /\ ev.what \in {"connect_failed", "refresh_failed"}
      /\ ev.log[1].info = "ext"
      /\ tasks[UnloadTask].pc = "absent" ) =>
        tasks[ev.task].pc \in {"sleeping", "refreshing", "connecting"}

\* the places of a task inside the listen loop
LsPcs == { "ls_start", "listening" }

\* C30: every termination of the listen loop that disconnect() did not cause
\* (the task was not cancelled) is followed by a reconnect scheduling: the step
\* that ends the loop calls _schedule_reconnect, whether the connection was
\* closed with an error or the frame stream ended without one
C30_ListenTerminationSchedules ==
    [][ \A t \in Tasks :
          ( /\ tasks[t].pc \in LsPcs
            /\ tasks'[t].pc \notin LsPcs
            /\ ~tasks[t].cancel ) =>
              /\ ev'.task = t
              /\ ev'.log # <<>>
              /\ ev'.log[Len(ev'.log)].e = "schedule"
      ]_vars

\* the heartbeat loops that can still send, the listen loops that can still
\* receive
SendingLoops == { t \in Tasks : t[1] = "hb" /\ tasks[t].pc \in HbPcs }
ReceivingLoops == { t \in Tasks : t[1] = "ls" /\ tasks[t].pc \in LsPcs }

\* C34: at every moment at most one heartbeat loop can send and at most one
\* listen loop can receive on the channel, and at most one socket is open
C34_OneLoopPairOneSocket ==
    /\ Cardinality(SendingLoops) <= 1
    /\ Cardinality(ReceivingLoops) <= 1
    /\ Cardinality(openSockets) <= 1

\* the heartbeat loop and the listen loop of the first connection have both
\* scheduled a reconnect and sleep in backoff, the socket still open
C34_Witness ==
    /\ tasks[HbTask(1)].pc = "sleeping"
    /\ tasks[LsTask(1)].pc = "sleeping"
    /\ ~tasks[HbTask(1)].cancel /\ ~tasks[LsTask(1)].cancel
    /\ openSockets = {1}
    /\ reconnect_count = 2

-----------------------------------------------------------------------------
(* switch.py, number.py, climate.py, select.py: the command handlers
   (DispatchSpec) *)

\* the steps a handler awaits one after the other
SetStateStep(key, value) == [do |-> "set_state", key |-> key, value |-> value]
SleepStep(secs) == [do |-> "sleep", key |-> "none", value |-> secs]
RefreshStep == [do |-> "refresh", key |-> "none", value |-> PyNone]

\* the switches of switch.py
SwitchKeys == { "power_state", "filter_state", "heater_state", "hydrojet_state" }

\* target temperatures
Temperatures == { "20.0", "38.0", "40.0" }

\* int(temperature)
int_of_float(t) ==
    CASE t = "20.0" -> "20"
      [] t = "38.0" -> "38"
      [] t = "40.0" -> "40"
      [] OTHER      -> t

\* the handlers and their arguments: the switch's key, the temperature (None
\* when the service call carries none), the HVAC mode, the option
Commands ==
    { <<op, key>> : op \in {"async_turn_on", "async_turn_off"}, key \in SwitchKeys } \cup
    { <<"async_set_native_value", t>> : t \in Temperatures } \cup
    { <<"async_set_temperature", t>> : t \in Temperatures \cup {PyNone} } \cup
    { <<"async_set_hvac_mode", m>> : m \in {"heat", "off", "auto"} } \cup
    { <<"async_select_option", o>> : o \in {"OFF", "MEDIUM", "MAX"} }

\* async_select_option that reaches MAX with one toggle less
ProgramMaxAsMedium(op, arg) ==
    CASE op = "async_turn_on" ->
            << SetStateStep(arg, "1"), SleepStep("2"), RefreshStep >>
      [] op = "async_turn_off" ->
            << SetStateStep(arg, "0"), SleepStep("2"), RefreshStep >>
      [] op = "async_set_native_value" ->
            << SetStateStep("temperature_setting", arg), SleepStep("2"), RefreshStep >>
      [] op = "async_set_temperature" ->
            IF arg # PyNone
            THEN << SetStateStep("temperature_setting", int_of_float(arg)),
                    SleepStep("2"), RefreshStep >>
            ELSE << >>
      [] op = "async_set_hvac_mode" ->
            CASE arg = "heat" -> << SetStateStep("heater_state", "1") >>
              [] arg = "off"  -> << SetStateStep("heater_state", "0"), SleepStep("2"),
                                    RefreshStep >>
              [] OTHER        -> << >>
      [] op = "async_select_option" ->
            CASE arg = "OFF" -> << SetStateStep("wave_state", "0"), RefreshStep >>
              [] OTHER -> << SetStateStep("wave_state", "0"), SleepStep("1.5"),
                             SetStateStep("wave_state", "1"), RefreshStep >>

\* the body of each handler as the awaits it makes, in order
Program(op, arg) ==
    CASE op = "async_turn_on" ->
            << SetStateStep(arg, "1"), SleepStep("2"), RefreshStep >>
      [] op = "async_turn_off" ->
            << SetStateStep(arg, "0"), SleepStep("2"), RefreshStep >>
      [] op = "async_set_native_value" ->
            << SetStateStep("temperature_setting", arg), SleepStep("2"), RefreshStep >>
      [] op = "async_set_temperature" ->
            IF arg # PyNone
            THEN << SetStateStep("temperature_setting", int_of_float(arg)),
                    SleepStep("2"), RefreshStep >>
            ELSE << >>
      [] op = "async_set_hvac_mode" ->
            CASE arg = "heat" -> << SetStateStep("heater_state", "1") >>
              [] arg = "off"  -> << SetStateStep("heater_state", "0"), SleepStep("2"),
                                    RefreshStep >>
              [] OTHER        -> << >>
      [] op = "async_select_option" ->
            CASE arg = "OFF" -> << SetStateStep("wave_state", "0"), RefreshStep >>
              [] arg = "MEDIUM" ->
                    << SetStateStep("wave_state", "0"), SleepStep("1.5"),
                       SetStateStep("wave_state", "1"), RefreshStep >>
              [] arg = "MAX" ->
                    << SetStateStep("wave_state", "0"), SleepStep("1.5"),
                       SetStateStep("wave_state", "1"), SleepStep("1.5"),
                       SetStateStep("wave_state", "1"), RefreshStep >>
              [] OTHER -> << RefreshStep >>

\* the history entry of a step that starts, and of a set_state call that ends
Started(step) == [e |-> step.do, key |-> step.key, value |-> step.value]
Ended(how) == [e |-> how, key |-> "none", value |-> PyNone]

\* Home Assistant calls the handler: it runs up to its first await
Dispatch(op, arg) ==
    LET p == Program(op, arg)
    IN  /\ handler.pc \in {"idle", "done", "raised"}
        /\ IF p = << >>
           THEN /\ handler' = [op |-> op, arg |-> arg, pc |-> "done", at |-> 0]
                /\ events' = << >>
           ELSE /\ handler' = [op |-> op, arg |-> arg, pc |-> "awaiting", at |-> 1]
                /\ events' = << Started(p[1]) >>
        /\ UNCHANGED <<coordVars, pollVars, wsVars, frameVars, tokenVars, twinVars, apiVars,
                       statusVars, entryVars, discVars, bindVars>>

\* the awaited step returns: the handler goes on to its next await or ends
Returns ==
    LET p == Program(handler.op, handler.arg)
        done == IF p[handler.at].do = "set_state"
                THEN Append(events, Ended("returned")) ELSE events
    IN  /\ handler.pc = "awaiting"
        /\ IF handler.at = Len(p)
           THEN /\ handler' = [handler EXCEPT !.pc = "done"]
                /\ events' = done
           ELSE /\ handler' = [handler EXCEPT !.at = @ + 1]
                /\ events' = Append(done, Started(p[handler.at + 1]))
        /\ UNCHANGED <<coordVars, pollVars, wsVars, frameVars, tokenVars, twinVars, apiVars,
                       statusVars, entryVars, discVars, bindVars>>

\* the awaited set_state call raises: the exception leaves the handler
Raises ==
    LET p == Program(handler.op, handler.arg)
    IN  /\ handler.pc = "awaiting"
        /\ p[handler.at].do = "set_state"
        /\ handler' = [handler EXCEPT !.pc = "raised"]
        /\ events' = Append(events, Ended("raised"))
        /\ UNCHANGED <<coordVars, pollVars, wsVars, frameVars, tokenVars, twinVars, apiVars,
                       statusVars, entryVars, discVars, bindVars>>

DispatchInit ==
    CoordInit /\ PollIdle /\ WsIdle /\ FrameIdle /\ TokenIdle /\ TwinIdle /\ ApiIdle /\ HostIdle

DispatchNext ==
    \/ \E c \in Commands : Dispatch(c[1], c[2])
    \/ Returns
    \/ Raises

DispatchSpec == DispatchInit /\ [][DispatchNext]_vars

-----------------------------------------------------------------------------
(* Properties of the command handlers (DispatchSpec) *)

\* the places of the history where something of kind e happened
EventsOf(e) == { i \in 1..Len(events) : events[i].e = e }

\* C21: after any command sequence completes (the handler has returned and
\* has called set_state), a coordinator refresh was requested exactly once, and
\* after the last set_state call of the sequence
C21_RefreshOnceAfterCommands ==
    ( handler.pc = "done" /\ EventsOf("set_state") # {} ) =>
        /\ Cardinality(EventsOf("refresh")) = 1
        /\ \A r \in EventsOf("refresh"), c \in EventsOf("set_state") : c < r

\* the set_state calls of the history, in order
RECURSIVE CallsIn(_)
CallsIn(evs) ==
    IF evs = << >> THEN << >>
    ELSE IF evs[1].e = "set_state"
         THEN << <<evs[1].key, evs[1].value>> >> \o CallsIn(Tail(evs))
         ELSE CallsIn(Tail(evs))

\* the values the bubble modes are to send
BubbleValues(option) ==
    CASE option = "OFF"    -> << "0" >>
      [] option = "MEDIUM" -> << "0", "1" >>
      [] option = "MAX"    -> << "0", "1", "1" >>

\* C22: selecting a bubble mode calls set_state on wave_state with the values
\* [0] for OFF, [0, 1] for MEDIUM and [0, 1, 1] for MAX, in this order: all of
\* them once the handler has returned, the first ones until then; each call
\* after the first starts after the previous one returned and a delay passed;
\* a call that raised is the last thing the handler did
C22_BubbleModeSequence ==
    handler.op = "async_select_option" =>
        LET sent == CallsIn(events)
            want == BubbleValues(handler.arg)
        IN  /\ Len(sent) <= Len(want)
            /\ \A i \in 1..Len(sent) : sent[i] = <<"wave_state", want[i]>>
            /\ handler.pc = "done" => Len(sent) = Len(want)
            /\ \A i \in EventsOf("set_state") :
                  i > 1 => /\ i > 3
                           /\ events[i - 1].e = "sleep"
                           /\ events[i - 2].e = "returned"
                           /\ events[i - 3].e = "set_state"
            /\ \A i \in EventsOf("raised") :
                  /\ i = Len(events)
                  /\ events[i - 1].e = "set_state"
                  /\ handler.pc = "raised"

\* MAX was selected and the handler has returned after its three calls
C22_Witness ==
    /\ handler = [op |-> "async_select_option", arg |-> "MAX", pc |-> "done", at |-> 6]
    /\ CallsIn(events) = << <<"wave_state", "0">>, <<"wave_state", "1">>,
                            <<"wave_state", "1">> >>
    /\ Cardinality(EventsOf("sleep")) = 2

-----------------------------------------------------------------------------
(* spa_api.py: get_status (StatusSpec) *)

\* the body of a thing_shadow response: whether it has "data", the other items
\* of data, whether data has "state", the other items of state, and state's
\* "reported" and "desired" when it has them
Body(dat, fields, state, sfields, reported, rep, desired, des) ==
    [data |-> dat, fields |-> fields, state |-> state, sfields |-> sfields,
     reported |-> reported, rep |-> rep, desired |-> desired, des |-> des]

\* the field mappings of the inputs: none, the empty-string sentinel, a renamed
\* raw name, and a canonical name that is not a raw name
StatusMaps ==
    { EmptyMap,
      [k \in {"warning"} |-> EmptyStr],
      [k \in {"warning", "wifivertion"} |-> "5"],
      [k \in {"heater_state", "wifi_version"} |-> IF k = "heater_state" THEN Zero ELSE "5"] }

StatusBodies ==
    { Body("absent", EmptyMap, "absent", EmptyMap, "absent", EmptyMap,
           "absent", EmptyMap) } \cup
    { Body("object", fields, "absent", EmptyMap, "absent", EmptyMap,
           "absent", EmptyMap) : fields \in StatusMaps } \cup
    { Body("object", EmptyMap, "object", sfields,
           IF r = << >> THEN "absent" ELSE "object", IF r = << >> THEN EmptyMap ELSE r[1],
           IF d = << >> THEN "absent" ELSE "object", IF d = << >> THEN EmptyMap ELSE d[1]) :
        sfields \in StatusMaps,
        r \in {<< >>} \cup { <<m>> : m \in StatusMaps },
        d \in {<< >>} \cup { <<m>> : m \in StatusMaps } }

\* get_status picks the desired state before the reported one
device_state_of_desired_first(body) ==
    IF body.data = "object" /\ body.state = "object"
    THEN IF body.desired = "object" THEN body.des
         ELSE IF body.reported = "object" THEN body.rep
         ELSE body.sfields
    ELSE IF body.data = "object" THEN body.fields
    ELSE EmptyMap

\* raw_data = data.get("data", {}), then
\*   if "state" in raw_data: reported, else desired, else raw_data["state"]
\*   else: raw_data
device_state_of(body) ==
    IF body.data = "object" /\ body.state = "object"
    THEN IF body.reported = "object" THEN body.rep
         ELSE IF body.desired = "object" THEN body.des
         ELSE body.sfields
    ELSE IF body.data = "object" THEN body.fields
    ELSE EmptyMap

\* get_status(), from the response body on
get_status(body) == mapped(device_state_of(body))

\* await api.get_status() returns
GetStatus ==
    /\ status.kind = "none"
    /\ status' = [kind |-> "returned", map |-> get_status(response)]
    /\ UNCHANGED <<response, coordVars, pollVars, wsVars, frameVars, tokenVars, twinVars, apiVars,
                   dispVars, entryVars, discVars, bindVars>>

StatusInit ==
    /\ CoordInit /\ PollIdle /\ WsIdle /\ FrameIdle /\ TokenIdle /\ TwinIdle /\ ApiIdle
    /\ DispIdle /\ EntryIdle /\ DiscIdle /\ BindIdle
    /\ response \in StatusBodies
    /\ status = [kind |-> "none", map |-> EmptyMap]

StatusNext == GetStatus

StatusSpec == StatusInit /\ [][StatusNext]_vars

-----------------------------------------------------------------------------
(* Properties of get_status (StatusSpec) *)

\* the 16 canonical keys
StatusKeys ==
    { "wifi_version", "ota_status", "mcu_version", "trd_version", "connect_type",
      "power_state", "heater_state", "wave_state", "filter_state",
      "temperature_setting", "temperature_unit", "water_temperature",
      "warning", "error_code", "hydrojet_state", "is_online" }

\* where the values are to come from: state.reported when present, otherwise
\* state.desired, otherwise the state object, otherwise the data object
Upstream ==
    CASE response.data = "object" /\ response.state = "object"
           /\ response.reported = "object" -> response.rep
      [] response.data = "object" /\ response.state = "object"
           /\ response.reported = "absent" /\ response.desired = "object" -> response.des
      [] response.data = "object" /\ response.state = "object"
           /\ response.reported = "absent" /\ response.desired = "absent" -> response.sfields
      [] response.data = "object" /\ response.state = "absent" -> response.fields
      [] OTHER -> EmptyMap

-----------------------------------------------------------------------------
(* Properties of a refresh on a response without device data (Spec) *)

\* the device state get_status reads out of an error envelope: a body with a
\* code and a message and no "data"
NoDeviceData ==
    device_state_of(Body("absent", EmptyMap, "absent", EmptyMap, "absent", EmptyMap,
                         "absent", EmptyMap))

\* C33: a refresh whose status response carries no device data is reported as
\* a failed update and leaves the snapshot as it was: known values are not
\* replaced by None
C33_EmptyResponseIsFailedUpdate ==
    (last.op = "refresh" /\ last.arg = NoDeviceData) =>
        /\ ~last_update_success
        /\ last.error # "none"
        /\ data = last.before

-----------------------------------------------------------------------------
(* __init__.py: async_setup_entry and async_unload_entry (EntrySpec) *)

\* how many times the entry is set up
MaxSetups == 2

\* entry.data: with or without service_region, with or without device_id
Entries == [service_region : BOOLEAN, device_id : BOOLEAN]

\* Home Assistant sets the entry up: async_setup_entry runs up to
\* `await authenticate(session, entry.data)`
SetupEntry(e) ==
    /\ lifecycle.pc \in {"idle", "unloaded"}
    /\ lifecycle.setups < MaxSetups
    /\ entry' = e
    /\ lifecycle' = [pc |-> "authenticating", result |-> "none",
                     setups |-> lifecycle.setups + 1]
    /\ channel' = "none"
    /\ entryLog' = << "authenticate" >>
    /\ UNCHANGED <<hass_data, coordVars, pollVars, wsVars, frameVars, tokenVars, twinVars, apiVars,
                   dispVars, statusVars, discVars, bindVars>>

\* authenticate ends: with a token, without one (`if not token: return
\* False`), or with an exception, which leaves async_setup_entry
Authenticated(how) ==
    /\ lifecycle.pc = "authenticating"
    /\ CASE how = "token" ->
              /\ lifecycle' = [lifecycle EXCEPT !.pc = "refreshing"]
              /\ entryLog' = Append(entryLog, "first_refresh")
         [] how = "none" ->
              /\ lifecycle' = [lifecycle EXCEPT !.pc = "failed", !.result = "False"]
              /\ UNCHANGED entryLog
         [] how = "raise" ->
              /\ lifecycle' = [lifecycle EXCEPT !.pc = "failed", !.result = "raised"]
              /\ UNCHANGED entryLog
    /\ UNCHANGED <<entry, hass_data, channel, coordVars, pollVars, wsVars,
                   frameVars, tokenVars, twinVars, apiVars, dispVars, statusVars, discVars, bindVars>>

\* the steps between the first refresh and the forwarding of the platforms,
\* for an entry without the service_region test
setup_after_refresh_always_websocket(e) ==
    IF e.device_id
    THEN [hass_data |-> [present |-> TRUE, websocket |-> TRUE],
          channel |-> "started",
          log |-> << "store_entry", "ws_created", "ws_started", "ws_stored",
                     "forward_setups" >>]
    ELSE [hass_data |-> [present |-> TRUE, websocket |-> FALSE],
          channel |-> "none",
          log |-> << "store_entry", "ws_error", "forward_setups" >>]

\* the steps between the first refresh and the forwarding of the platforms:
\* hass.data[DOMAIN][entry_id] = {api, coordinator}; if "service_region" in
\* entry.data: BestwayWebSocket(device_id=entry.data["device_id"], ...),
\* hass.async_create_task(websocket.connect()), the "websocket" item; a
\* KeyError of entry.data["device_id"] is caught and logged
setup_after_refresh(e) ==
    IF e.service_region /\ e.device_id
    THEN [hass_data |-> [present |-> TRUE, websocket |-> TRUE],
          channel |-> "started",
          log |-> << "store_entry", "ws_created", "ws_started", "ws_stored",
                     "forward_setups" >>]
    ELSE IF e.service_region
    THEN [hass_data |-> [present |-> TRUE, websocket |-> FALSE],
          channel |-> "none",
          log |-> << "store_entry", "ws_error", "forward_setups" >>]
    ELSE [hass_data |-> [present |-> TRUE, websocket |-> FALSE],
          channel |-> "none",
          log |-> << "store_entry", "forward_setups" >>]

\* coordinator.async_config_entry_first_refresh() ends: the refresh succeeded
\* ("ok"), it raised ConfigEntryNotReady ("not_ready"), or it returned with
\* last_update_success False ("flag")
FirstRefreshed(how) ==
    /\ lifecycle.pc = "refreshing"
    /\ CASE how = "ok" ->
              LET r == setup_after_refresh(entry)
              IN  /\ lifecycle' = [lifecycle EXCEPT !.pc = "forwarding"]
                  /\ hass_data' = r.hass_data
                  /\ channel' = r.channel
                  /\ entryLog' = entryLog \o r.log
         [] how = "not_ready" ->
              /\ lifecycle' = [lifecycle EXCEPT !.pc = "failed", !.result = "raised"]
              /\ UNCHANGED <<hass_data, channel, entryLog>>
         [] how = "flag" ->
              /\ lifecycle' = [lifecycle EXCEPT !.pc = "failed", !.result = "False"]
              /\ UNCHANGED <<hass_data, channel, entryLog>>
    /\ UNCHANGED <<entry, coordVars, pollVars, wsVars, frameVars, tokenVars, twinVars, apiVars,
                   dispVars, statusVars, discVars, bindVars>>

\* async_forward_entry_setups ends: setup returns True, or its exception
\* leaves async_setup_entry
Forwarded(ok) ==
    /\ lifecycle.pc = "forwarding"
    /\ lifecycle' = IF ok THEN [lifecycle EXCEPT !.pc = "loaded", !.result = "True"]
                          ELSE [lifecycle EXCEPT !.pc = "failed", !.result = "raised"]
    /\ UNCHANGED <<entry, hass_data, channel, entryLog, coordVars, pollVars,
                   wsVars, frameVars, tokenVars, twinVars, apiVars, dispVars, statusVars, discVars,
                   bindVars>>

\* async_unload_entry that unloads the platforms without the disconnect
unload_start_skips_disconnect(h) ==
    [pc |-> "unloading", log |-> << "unload_platforms" >>]

\* async_unload_entry up to its first await: websocket.disconnect() when the
\* entry has a websocket, async_unload_platforms otherwise
unload_start(h) ==
    IF h.websocket
    THEN [pc |-> "disconnecting", log |-> << "disconnect" >>]
    ELSE [pc |-> "unloading", log |-> << "unload_platforms" >>]

\* Home Assistant unloads the loaded entry
UnloadEntry ==
    /\ lifecycle.pc = "loaded"
    /\ LET r == unload_start(hass_data)
       IN  /\ lifecycle' = [lifecycle EXCEPT !.pc = r.pc, !.result = "none"]
           /\ entryLog' = entryLog \o r.log
    /\ UNCHANGED <<entry, hass_data, channel, coordVars, pollVars, wsVars,
                   frameVars, tokenVars, twinVars, apiVars, dispVars, statusVars, discVars, bindVars>>

\* websocket.disconnect() ends: it returns, or raises an Exception that is
\* caught and logged; the platforms are unloaded next
Disconnected(raised) ==
    /\ lifecycle.pc = "disconnecting"
    /\ lifecycle' = [lifecycle EXCEPT !.pc = "unloading"]
    /\ channel' = IF raised THEN channel ELSE "disconnected"
    /\ entryLog' = entryLog \o
                     (IF raised THEN << "disconnect_error" >> ELSE << "disconnected" >>)
                     \o << "unload_platforms" >>
    /\ UNCHANGED <<entry, hass_data, coordVars, pollVars, wsVars, frameVars, tokenVars, twinVars,
                   apiVars, dispVars, statusVars, discVars, bindVars>>

\* async_unload_platforms returns unload_ok: the entry's data is popped when
\* it is true
PlatformsUnloaded(unload_ok) ==
    /\ lifecycle.pc = "unloading"
    /\ IF unload_ok
       THEN /\ lifecycle' = [lifecycle EXCEPT !.pc = "unloaded", !.result = "True"]
            /\ hass_data' = [present |-> FALSE, websocket |-> FALSE]
            /\ entryLog' = Append(entryLog, "pop_entry")
       ELSE /\ lifecycle' = [lifecycle EXCEPT !.pc = "unload_failed", !.result = "False"]
            /\ UNCHANGED <<hass_data, entryLog>>
    /\ UNCHANGED <<entry, channel, coordVars, pollVars, wsVars, frameVars, tokenVars, twinVars,
                   apiVars, dispVars, statusVars, discVars, bindVars>>

EntryInit ==
    /\ CoordInit /\ PollIdle /\ WsIdle /\ FrameIdle /\ TokenIdle /\ TwinIdle /\ ApiIdle
    /\ DispIdle /\ StatusIdle /\ EntryIdle /\ DiscIdle /\ BindIdle

EntryNext ==
    \/ \E e \in Entries : SetupEntry(e)
    \/ \E how \in {"token", "none", "raise"} : Authenticated(how)
    \/ \E how \in {"ok", "not_ready", "flag"} : FirstRefreshed(how)
    \/ \E ok \in BOOLEAN : Forwarded(ok)
    \/ UnloadEntry
    \/ \E raised \in BOOLEAN : Disconnected(raised)
    \/ \E unload_ok \in BOOLEAN : PlatformsUnloaded(unload_ok)

EntrySpec == EntryInit /\ [][EntryNext]_vars

-----------------------------------------------------------------------------
(* Properties of setup and unload (EntrySpec) *)

\* the places of the setup and unload history where step s was taken
LogOf(s) == { i \in 1..Len(entryLog) : entryLog[i] = s }

\* C24: a push channel is created and started only if authentication returned
\* a token, the first refresh succeeded and entry.data has service_region; when
\* authentication gives no token or the first refresh fails, setup reports
\* failure and no push channel exists; when service_region is absent, setup
\* succeeds with no websocket stored for the entry
C24_ChannelOnlyAfterSuccessfulSetup ==
    /\ (channel # "none" \/ hass_data.websocket) =>
          /\ entry.service_region
          /\ \E a \in LogOf("authenticate"), r \in LogOf("first_refresh"),
                s \in LogOf("store_entry"), c \in LogOf("ws_created"),
                t \in LogOf("ws_started") :
                  a < r /\ r < s /\ s < c /\ c < t
    /\ ( /\ lifecycle.pc = "failed"
         /\ entryLog[Len(entryLog)] \in {"authenticate", "first_refresh"} ) =>
          /\ lifecycle.result \in {"False", "raised"}
          /\ channel = "none"
          /\ hass_data = [present |-> FALSE, websocket |-> FALSE]
    /\ (~entry.service_region /\ lifecycle.pc \in {"forwarding", "loaded"}) =>
          /\ hass_data = [present |-> TRUE, websocket |-> FALSE]
          /\ channel = "none"
          /\ lifecycle.pc = "loaded" => lifecycle.result = "True"

\* an entry with service_region is loaded, its channel started and stored
C24_Witness ==
    /\ lifecycle.pc = "loaded"
    /\ lifecycle.result = "True"
    /\ entry.service_region
    /\ channel = "started"
    /\ hass_data.websocket

\* C25: async_unload_entry disconnects the entry's push channel, when it has
\* one, before it unloads the platforms; an error raised by the disconnect
\* does not prevent the unload; after a successful unload the entry's data is
\* no longer in hass.data
C25_UnloadDisconnectsFirst ==
    /\ \A u \in LogOf("unload_platforms") :
          LogOf("ws_stored") # {} =>
             \E d \in LogOf("disconnect") : d < u
    /\ \A d \in LogOf("disconnect") :
          LogOf("ws_stored") # {} /\ lifecycle.pc # "disconnecting" =>
             /\ d + 2 <= Len(entryLog)
             /\ entryLog[d + 1] \in {"disconnected", "disconnect_error"}
             /\ entryLog[d + 2] = "unload_platforms"
    /\ lifecycle.pc = "unloaded" =>
          /\ lifecycle.result = "True"
          /\ ~hass_data.present

\* the disconnect raised and the entry was unloaded all the same
C25_Witness ==
    /\ lifecycle.pc = "unloaded"
    /\ LogOf("disconnect_error") # {}
    /\ entryLog[Len(entryLog)] = "pop_entry"
    /\ ~hass_data.present

-----------------------------------------------------------------------------
(* __init__.py: the first refresh and the deltas that follow it (StartupSpec) *)

\* setup goes on whatever the first refresh left in last_update_success
first_refresh_passed_ignores_flag(how) == how # "not_ready"

\* await coordinator.async_config_entry_first_refresh() returns (it raises
\* ConfigEntryNotReady otherwise) and `if not coordinator.last_update_success:
\* return False` is passed
first_refresh_passed(how) == how = "ok"

\* the first refresh of the new coordinator, in which get_status returns
\* mapped(device_state) ("ok") or raises, and the rest of async_setup_entry up
\* to the forwarding of the platforms
FirstRefresh(how, device_state) ==
    LET r == async_update_data(data, how # "ok", mapped(device_state))
        s == setup_after_refresh(entry)
    IN  /\ lifecycle.pc = "refreshing"
        /\ how = "ok" \/ device_state = EmptyMap
        /\ data' = r.data
        /\ last_update_success' = r.success
        /\ last' = [op |-> "refresh", arg |-> device_state, before |-> data,
                    notified |-> FALSE, error |-> r.error]
        /\ IF first_refresh_passed(how)
           THEN /\ lifecycle' = [lifecycle EXCEPT !.pc = "forwarding"]
                /\ hass_data' = s.hass_data
                /\ channel' = s.channel
                /\ entryLog' = entryLog \o s.log
           ELSE /\ lifecycle' = [lifecycle EXCEPT
                                   !.pc = "failed",
                                   !.result = IF how = "not_ready" THEN "raised"
                                                                  ELSE "False"]
                /\ UNCHANGED <<hass_data, channel, entryLog>>
        /\ UNCHANGED <<entry, pollVars, wsVars, frameVars, tokenVars, twinVars, apiVars,
                       dispVars, statusVars, discVars, bindVars>>

\* the channel that setup started hands the reported mapping of a frame to
\* state_callback
PushDelta(state) ==
    LET r == state_callback(data, state)
    IN  /\ channel = "started"
        /\ Len(calls) < MaxFrames
        /\ calls' = Append(calls, MappingArg(state))
        /\ data' = r.data
        /\ last' = [op |-> "delta", arg |-> state, before |-> data,
                    notified |-> r.notified, error |-> "none"]
        /\ UNCHANGED <<frames, last_update_success, pollVars, wsVars, tokenVars, twinVars,
                       apiVars, hostVars>>

StartupInit == EntryInit

StartupNext ==
    \/ \E e \in Entries : SetupEntry(e)
    \/ \E how \in {"token", "none", "raise"} : Authenticated(how)
    \/ \E how \in {"ok", "not_ready", "flag"}, device_state \in StatusMaps :
          FirstRefresh(how, device_state)
    \/ \E ok \in BOOLEAN : Forwarded(ok)
    \/ \E state \in FrameReported : PushDelta(state)

StartupSpec == StartupInit /\ [][StartupNext]_vars

-----------------------------------------------------------------------------
(* Properties of the start of the push channel (StartupSpec) *)

\* C37: the push callback is never invoked before the first full snapshot of
\* get_status was stored: the channel is started only after the first refresh
\* succeeded, and every delta is merged over a snapshot that exists
C37_NoDeltaBeforeFirstSnapshot ==
    /\ channel = "started" =>
          /\ \E r \in LogOf("first_refresh"), c \in LogOf("ws_started") : r < c
          /\ data.kind = "dict"
          /\ DOMAIN data.map = CanonicalKeys
    /\ calls # << >> => channel = "started"
    /\ last.op = "delta" =>
          /\ last.before.kind = "dict"
          /\ DOMAIN last.before.map = CanonicalKeys

\* a delta was merged over the snapshot of the first refresh
C37_Witness ==
    /\ Len(calls) = 1
    /\ last.op = "delta"
    /\ last.notified
    /\ last.before = Dict(mapped([k \in {"warning", "wifivertion"} |-> "5"]))
    /\ data.map["heater_state"] = "5"
    /\ data.map["wifi_version"] = "5"

-----------------------------------------------------------------------------
(* spa_api.py: discover_devices (DiscoverSpec) *)

\* the most homes of an account and the most rooms of a home
MaxHomes == 2
MaxRooms == 2

\* how a query ends: code 0 ("ok"), another code ("code"), or an exception
\* from the request or from resp.json() ("raise")
Answers == { "ok", "code", "raise" }

\* sequences of at most n elements of S
SeqsUpTo(S, n) == UNION { [1..k -> S] : k \in 0..n }

\* a room: how its devices query ends and the devices it lists
Rooms ==
    { [answer |-> a, list |-> << >>] : a \in Answers } \cup
    { [answer |-> "ok", list |-> << "device" >>] }

\* a home: how its rooms query ends and the rooms it lists
Homes ==
    { [answer |-> a, list |-> << >>] : a \in {"code", "raise"} } \cup
    { [answer |-> "ok", list |-> rooms] : rooms \in SeqsUpTo(Rooms, MaxRooms) }

\* the account: how the homes query ends and the homes it lists
Clouds ==
    { [answer |-> a, list |-> << >>] : a \in {"code", "raise"} } \cup
    { [answer |-> "ok", list |-> homes] : homes \in SeqsUpTo(Homes, MaxHomes) }

\* the devices room r of home h lists, told apart by where they are
DevicesOf(c, h, r) ==
    [i \in 1..Len(c.list[h].list[r].list) |-> <<h, r, i>>]

\* the traversal after home h, room r: the next devices query, the next rooms
\* query, or the return of all_devices
RECURSIVE next_query(_, _, _, _)
next_query(c, d, h, r) ==
    IF h > Len(c.list)
    THEN [d EXCEPT !.pc = "returned", !.home = 0, !.room = 0]
    ELSE IF r = 0
    THEN [d EXCEPT !.pc = "rooms", !.home = h, !.room = 0,
                   !.queries = Append(@, <<"rooms", h, 0>>)]
    ELSE IF r > Len(c.list[h].list)
    THEN next_query(c, d, h + 1, 0)
    ELSE [d EXCEPT !.pc = "devices", !.home = h, !.room = r,
                   !.queries = Append(@, <<"devices", h, r>>)]

\* discover_devices() is called: the homes query is sent
Discover ==
    /\ discovery.pc = "idle"
    /\ discovery' = [discovery EXCEPT !.pc = "homes",
                                      !.queries = << <<"homes", 0, 0>> >>]
    /\ UNCHANGED <<cloud, coordVars, pollVars, wsVars, frameVars, tokenVars, twinVars, apiVars,
                   dispVars, statusVars, entryVars, bindVars>>

\* the homes query ends: an exception leaves discover_devices, a non-zero code
\* or an empty list returns [], otherwise the rooms of the first home are asked
HomesAnswered ==
    /\ discovery.pc = "homes"
    /\ discovery' =
          CASE cloud.answer = "raise" -> [discovery EXCEPT !.pc = "raised"]
            [] cloud.answer = "code"  -> [discovery EXCEPT !.pc = "returned"]
            [] OTHER -> next_query(cloud, discovery, 1, 0)
    /\ UNCHANGED <<cloud, coordVars, pollVars, wsVars, frameVars, tokenVars, twinVars, apiVars,
                   dispVars, statusVars, entryVars, bindVars>>

\* the rooms query of a home ends: an exception leaves discover_devices, a
\* non-zero code goes on with the next home, otherwise the rooms are traversed
RoomsAnswered ==
    LET h == discovery.home
    IN  /\ discovery.pc = "rooms"
        /\ discovery' =
              CASE cloud.list[h].answer = "raise" -> [discovery EXCEPT !.pc = "raised"]
                [] cloud.list[h].answer = "code" ->
                      next_query(cloud, discovery, h + 1, 0)
                [] OTHER -> next_query(cloud, discovery, h, 1)
        /\ UNCHANGED <<cloud, coordVars, pollVars, wsVars, frameVars, tokenVars, twinVars, apiVars,
                       dispVars, statusVars, entryVars, bindVars>>

\* the devices query of a room ends: an exception leaves discover_devices, a
\* non-zero code goes on with the next room, otherwise all_devices is extended
DevicesAnswered ==
    LET h == discovery.home
        r == discovery.room
    IN  /\ discovery.pc = "devices"
        /\ discovery' =
              CASE cloud.list[h].list[r].answer = "raise" ->
                      [discovery EXCEPT !.pc = "raised"]
                [] cloud.list[h].list[r].answer = "code" ->
                      next_query(cloud, discovery, h, r + 1)
                [] OTHER ->
                      next_query(cloud,
                                 [discovery EXCEPT
                                    !.all_devices = @ \o DevicesOf(cloud, h, r)],
                                 h, r + 1)
        /\ UNCHANGED <<cloud, coordVars, pollVars, wsVars, frameVars, tokenVars, twinVars, apiVars,
                       dispVars, statusVars, entryVars, bindVars>>

DiscoverInit ==
    /\ CoordInit /\ PollIdle /\ WsIdle /\ FrameIdle /\ TokenIdle /\ TwinIdle /\ ApiIdle
    /\ DispIdle /\ StatusIdle /\ EntryIdle /\ BindIdle
    /\ cloud \in Clouds
    /\ discovery = [pc |-> "idle", home |-> 0, room |-> 0, queries |-> <<>>,
                    all_devices |-> <<>>]

DiscoverNext ==
    \/ Discover
    \/ HomesAnswered
    \/ RoomsAnswered
    \/ DevicesAnswered

DiscoverSpec == DiscoverInit /\ [][DiscoverNext]_vars

-----------------------------------------------------------------------------
(* Properties of discover_devices (DiscoverSpec) *)

\* the devices of the rooms from room r of home h on whose home's rooms query
\* and whose own devices query both succeed, in traversal order
RECURSIVE DevicesFrom(_, _)
DevicesFrom(h, r) ==
    IF h > Len(cloud.list) THEN << >>
    ELSE IF cloud.list[h].answer # "ok" \/ r > Len(cloud.list[h].list)
    THEN DevicesFrom(h + 1, 1)
    ELSE (IF cloud.list[h].list[r].answer = "ok"
          THEN DevicesOf(cloud, h, r) ELSE << >>) \o DevicesFrom(h, r + 1)

\* C26: discover_devices returns the concatenation, in traversal order, of the
\* device lists of every room whose home's rooms query and whose own devices
\* query both succeeded; a failure at one home or one room skips that branch
\* only: once the homes are known, the traversal is never aborted, and every
\* home is asked for its rooms
C26_DiscoverySkipsFailedBranches ==
    /\ discovery.pc = "returned" /\ cloud.answer = "ok" =>
          /\ discovery.all_devices = DevicesFrom(1, 1)
          /\ \A h \in 1..Len(cloud.list) :
                \E i \in 1..Len(discovery.queries) :
                    discovery.queries[i] = <<"rooms", h, 0>>
    /\ cloud.answer = "ok" => discovery.pc # "raised"

-----------------------------------------------------------------------------
(* spa_api.py: bind_device_qr (BindSpec) *)

\* Python values that can be passed as qr_code: None, an int, a str (its
\* characters one by one)
QrNone == [type |-> "NoneType", text |-> << >>, value |-> 0]
QrInt(n) == [type |-> "int", text |-> << >>, value |-> n]
QrStr(s) == [type |-> "str", text |-> s, value |-> 0]

\* "RW_Share_"
SharePrefix == << "R", "W", "_", "S", "h", "a", "r", "e", "_" >>

QrTexts ==
    { << >>,
      << "a" >>,
      SubSeq(SharePrefix, 1, 8),
      << "r", "w", "_", "s", "h", "a", "r", "e", "_", "a" >>,
      << "x" >> \o SharePrefix \o << "a" >>,
      SharePrefix,
      SharePrefix \o << "a" >>,
      SharePrefix \o << "a", "b" >>,
      SharePrefix \o << "_" >>,
      SharePrefix \o SharePrefix }

QrCodes == { QrNone, QrInt(0), QrInt(7) } \cup { QrStr(s) : s \in QrTexts }

\* `not qr_code`: None, 0 and "" are falsy
Falsy(v) ==
    \/ v.type = "NoneType"
    \/ v.type = "int" /\ v.value = 0
    \/ v.type = "str" /\ Len(v.text) = 0

\* str.startswith
startswith(s, prefix) ==
    /\ Len(s) >= Len(prefix)
    /\ SubSeq(s, 1, Len(prefix)) = prefix

\* qr_code[9:]
vercode_part(s) == SubSeq(s, 10, Len(s))

bind_validate_accepts_bare_prefix(v) ==
    /\ ~Falsy(v)
    /\ v.type = "str"
    /\ startswith(v.text, SharePrefix)

\* the three checks before the request: a non-empty str, the prefix, a
\* non-empty remainder
bind_validate(v) ==
    /\ ~Falsy(v)
    /\ v.type = "str"
    /\ startswith(v.text, SharePrefix)
    /\ vercode_part(v.text) # << >>

\* the "data" of a grant_device answer: absent, or the device info
Absent == [kind |-> "absent"]
DeviceInfos ==
    { Dict(EmptyMap),
      Dict([m \in {"device_id", "name"} |-> IF m = "name" THEN "Spa" ELSE "dev1"]) }

\* how the awaited POST ends: the body is a JSON object with or without "code"
\* and "data", or another JSON value, or the request or resp.json() raises
GrantReplies ==
    { [kind |-> "dict", code |-> c, data |-> d] :
          c \in { "0", "4001", "4002", "401", "'0'", PyNone },
          d \in { Absent } \cup DeviceInfos } \cup
    { [kind |-> "list", code |-> PyNone, data |-> Absent],
      [kind |-> "raise", code |-> PyNone, data |-> Absent] }

NoReply == [kind |-> "none", code |-> PyNone, data |-> Absent]

\* bind_device_qr(qr_code) up to its await: None for a code that fails a
\* check, the POST of {"vercode": qr_code, "push_type": ...} otherwise
BindDeviceQr ==
    /\ grant.pc = "idle"
    /\ IF bind_validate(qr_code)
       THEN /\ grant' = [grant EXCEPT !.pc = "posted",
                                      !.requests = Append(@, [vercode |-> qr_code.text])]
            /\ UNCHANGED bound
       ELSE /\ grant' = [grant EXCEPT !.pc = "done"]
            /\ bound' = [kind |-> "returned", value |-> NoData]
    /\ UNCHANGED <<qr_code, coordVars, pollVars, wsVars, frameVars, tokenVars, twinVars, apiVars,
                   dispVars, statusVars, entryVars, discVars>>

\* the answer is a JSON object: result.get("data", {}) is returned for code 0,
\* None for every other code
GrantAnswered ==
    /\ grant.pc = "posted"
    /\ \E reply \in { g \in GrantReplies : g.kind = "dict" } :
          /\ grant' = [grant EXCEPT !.pc = "done", !.reply = reply]
          /\ bound' = [kind |-> "returned",
                       value |-> IF reply.code = "0"
                                 THEN (IF reply.data = Absent
                                       THEN Dict(EmptyMap) ELSE reply.data)
                                 ELSE NoData]
    /\ UNCHANGED <<qr_code, coordVars, pollVars, wsVars, frameVars, tokenVars, twinVars, apiVars,
                   dispVars, statusVars, entryVars, discVars>>

\* the request or resp.json() raises, or result.get does because the body is
\* not an object: except Exception returns None
GrantFailed ==
    /\ grant.pc = "posted"
    /\ \E reply \in { g \in GrantReplies : g.kind # "dict" } :
          grant' = [grant EXCEPT !.pc = "done", !.reply = reply]
    /\ bound' = [kind |-> "returned", value |-> NoData]
    /\ UNCHANGED <<qr_code, coordVars, pollVars, wsVars, frameVars, tokenVars, twinVars, apiVars,
                   dispVars, statusVars, entryVars, discVars>>

BindInit ==
    /\ CoordInit /\ PollIdle /\ WsIdle /\ FrameIdle /\ TokenIdle /\ TwinIdle /\ ApiIdle
    /\ DispIdle /\ StatusIdle /\ EntryIdle /\ DiscIdle
    /\ qr_code \in QrCodes
    /\ grant = [pc |-> "idle", requests |-> << >>, reply |-> NoReply]
    /\ bound = [kind |-> "none", value |-> NoData]

BindNext ==
    \/ BindDeviceQr
    \/ GrantAnswered
    \/ GrantFailed

BindSpec == BindInit /\ [][BindNext]_vars

-----------------------------------------------------------------------------
(* Properties of bind_device_qr (BindSpec) *)

\* the text is "RW_Share_" followed by at least one character
SharedCode(s) ==
    \E rest \in { SubSeq(s, i, Len(s)) : i \in 1..Len(s) } :
        s = SharePrefix \o rest

====
